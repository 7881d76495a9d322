-------------------------- MODULE ClientSyncProofs --------------------------
(***************************************************************************)
(* Proofs about ClientSync, for any number of suites, clients, handles,    *)
(* changes and events.                                                     *)
(***************************************************************************)
EXTENDS ClientSync, FiniteSetTheorems, WellFoundedInduction, TLAPS

-----------------------------------------------------------------------------
(* Least and greatest numbers *)

LEMMA LeastOf ==
    ASSUME NEW S, S \subseteq Nat, S # {}
    PROVE  \E x \in S : \A y \in S : x <= y
<1>1. PICK x \in S : \A y \in S : ~(<<y, x>> \in OpToRel(<, Nat))
    BY WFMin, NatLessThanWellFounded
<1>2. \A y \in S : ~(y < x)
    BY <1>1 DEF OpToRel
<1> QED BY <1>2

LEMMA GreatestOf ==
    ASSUME NEW S, S \subseteq Nat, S # {}, NEW b \in Nat, \A y \in S : y <= b
    PROVE  MaxOf(S) \in S /\ \A y \in S : y <= MaxOf(S)
<1> DEFINE U == {k \in Nat : \A y \in S : y <= k}
<1>1. PICK x \in U : \A y \in U : x <= y
    <2>1. b \in U
        OBVIOUS
    <2> QED BY <2>1, LeastOf
<1>2. x \in S
    <2> SUFFICES ASSUME x \notin S PROVE FALSE
        OBVIOUS
    <2>1. \A y \in S : y < x
        <3> TAKE y \in S
        <3>1. y <= x /\ y # x /\ y \in Nat /\ x \in Nat
            BY <1>1
        <3> QED BY <3>1
    <2>2. x # 0
        <3>1. PICK y \in S : TRUE
            OBVIOUS
        <3> QED BY <2>1, <3>1
    <2>3. x - 1 \in U
        BY <1>1, <2>1, <2>2
    <2> QED BY <1>1, <2>3
<1>3. \A y \in S : y <= x
    BY <1>1
<1> QED BY <1>2, <1>3 DEF MaxOf

-----------------------------------------------------------------------------
(* Types *)

Records == [h : Handles \cup {0}, s : Nat, m : Nat, defs : Defs \cup {None}]

\* No number is ahead of the server's counters.
Numbers ==
    /\ root.no <= ecf.s
    /\ \A n \in Suites : suite[n].sno <= ecf.s /\ suite[n].mno <= ecf.m
    /\ \A h \in Handles : handle[h].sno <= ecf.s /\ handle[h].mno <= ecf.m

Typed == TypeOK /\ Numbers

LEMMA HandlesType == Handles \subseteq Nat /\ 0 \notin Handles
BY SyncAssumption DEF Handles

LEMMA ScopeType == ASSUME TypeOK, NEW h \in Handles \cup {0} PROVE Scope(h) \subseteq Live
BY DEF Scope

LEMMA LiveType == Live \subseteq Suites
BY DEF Live

LEMMA NowType == ASSUME TypeOK PROVE Now \in Defs
BY LiveType DEF TypeOK, Now, Defs

LEMMA LimitedType == ASSUME NEW d \in Defs, NEW S PROVE Limited(d, S) \in Defs
BY SyncAssumption DEF Limited, Defs

LEMMA NoClockType == ASSUME NEW d \in Defs PROVE NoClock(d) \in Views
BY DEF NoClock, Defs, Views

SuiteType == [on : BOOLEAN, sno : Nat, mno : Nat, v : Vals, no : Nat, cal : Vals, calno : Nat]

LEMMA NoSuiteType ==
    /\ NoSuite \in SuiteType /\ NoSuite.v = 0 /\ ~NoSuite.on
    /\ NoSuite.sno = 0 /\ NoSuite.mno = 0 /\ NoSuite.no = 0
BY SyncAssumption DEF NoSuite, SuiteType

LEMMA NewSuiteType ==
    ASSUME NEW v \in Vals, NEW cal \in Vals
    PROVE  /\ [NoSuite EXCEPT !.on = TRUE, !.v = v, !.cal = cal] \in SuiteType
           /\ [NoSuite EXCEPT !.on = TRUE, !.v = v, !.cal = cal].on
           /\ [NoSuite EXCEPT !.on = TRUE, !.v = v, !.cal = cal].sno = 0
           /\ [NoSuite EXCEPT !.on = TRUE, !.v = v, !.cal = cal].mno = 0
           /\ [NoSuite EXCEPT !.on = TRUE, !.v = v] \in SuiteType
           /\ [NoSuite EXCEPT !.on = TRUE, !.v = v].on
           /\ [NoSuite EXCEPT !.on = TRUE, !.v = v].sno = 0
           /\ [NoSuite EXCEPT !.on = TRUE, !.v = v].mno = 0
BY NoSuiteType DEF SuiteType

\* The numbers that a handle's client is compared with.
LEMMA HandleMaxIs ==
    ASSUME Typed, NEW h \in Handles
    PROVE  /\ HandleMax(h).s \in Nat /\ HandleMax(h).s <= ecf.s /\ root.no <= HandleMax(h).s
           /\ handle[h].sno <= HandleMax(h).s
           /\ HandleMax(h).m \in Nat /\ HandleMax(h).m <= ecf.m /\ handle[h].mno <= HandleMax(h).m
           /\ \A n \in Scope(h) : suite[n].sno <= HandleMax(h).s /\ suite[n].mno <= HandleMax(h).m
           /\ HandleMax(h).m \in {0, handle[h].mno} \cup {suite[n].mno : n \in Scope(h)}
<1> DEFINE S == {root.no, handle[h].sno} \cup {suite[n].sno : n \in Scope(h)}
           M == {0, handle[h].mno} \cup {suite[n].mno : n \in Scope(h)}
<1>0. Scope(h) \subseteq Suites
    BY ScopeType, LiveType DEF Typed
<1>1. S \subseteq Nat /\ S # {} /\ \A y \in S : y <= ecf.s
    BY <1>0 DEF Typed, TypeOK, Numbers
<1>2. M \subseteq Nat /\ M # {} /\ \A y \in M : y <= ecf.m
    BY <1>0 DEF Typed, TypeOK, Numbers
<1>3. ecf.s \in Nat /\ ecf.m \in Nat
    BY DEF Typed, TypeOK
<1>4. HandleMax(h).s = MaxOf(S) /\ HandleMax(h).m = MaxOf(M)
    BY DEF HandleMax
<1> HIDE DEF S, M
<1>5. MaxOf(S) \in S /\ \A y \in S : y <= MaxOf(S)
    BY <1>1, <1>3, GreatestOf
<1>6. MaxOf(M) \in M /\ \A y \in M : y <= MaxOf(M)
    BY <1>2, <1>3, GreatestOf
<1>7. MaxOf(S) \in Nat /\ MaxOf(S) <= ecf.s /\ MaxOf(M) \in Nat /\ MaxOf(M) <= ecf.m
    BY <1>1, <1>2, <1>5, <1>6
<1>8. root.no <= MaxOf(S) /\ handle[h].sno <= MaxOf(S) /\ \A n \in Scope(h) : suite[n].sno <= MaxOf(S)
    BY <1>5 DEF S
<1>9. handle[h].mno <= MaxOf(M) /\ \A n \in Scope(h) : suite[n].mno <= MaxOf(M)
    BY <1>6 DEF M
<1> QED BY <1>4, <1>6, <1>7, <1>8, <1>9 DEF M

LEMMA ServerNoIs ==
    ASSUME Typed, NEW h \in Handles \cup {0}
    PROVE  /\ ServerNo(h).s \in Nat /\ ServerNo(h).s <= ecf.s /\ root.no <= ServerNo(h).s
           /\ ServerNo(h).m \in Nat /\ ServerNo(h).m <= ecf.m
           /\ \A n \in Scope(h) : suite[n].sno <= ServerNo(h).s /\ suite[n].mno <= ServerNo(h).m
<1>1. CASE h = 0
    BY <1>1, ScopeType, LiveType DEF ServerNo, Typed, TypeOK, Numbers
<1>2. CASE h \in Handles
    BY <1>2, HandleMaxIs, HandlesType DEF ServerNo
<1> QED BY <1>1, <1>2

LEMMA CachedIs ==
    ASSUME TypeOK
    PROVE  Cached.s = ecf.s /\ Cached.m = ecf.m /\ Cached.defs \in Defs
           /\ Cached \in [s : Nat, m : Nat, defs : Defs \cup {None}]
<1>1. CASE cache.defs = None \/ cache.s # ecf.s \/ cache.m # ecf.m
    BY <1>1, NowType DEF Cached, TypeOK
<1>2. CASE ~(cache.defs = None \/ cache.s # ecf.s \/ cache.m # ecf.m)
    BY <1>2 DEF Cached, TypeOK
<1> QED BY <1>1, <1>2

LEMMA HandleDefsIs ==
    ASSUME Typed, NEW h \in Handles
    PROVE  /\ HandleDefs(h).s \in Nat /\ HandleDefs(h).s <= ecf.s
           /\ HandleDefs(h).m \in Nat /\ HandleDefs(h).m <= ecf.m
           /\ HandleDefs(h).defs = Limited(Now, Scope(h)) /\ HandleDefs(h).defs \in Defs
<1> DEFINE S == {root.no} \cup {suite[n].sno : n \in Scope(h)}
<1>0. Scope(h) \subseteq Suites
    BY ScopeType, LiveType DEF Typed
<1>1. S \subseteq Nat /\ S # {} /\ \A y \in S : y <= ecf.s
    BY <1>0 DEF Typed, TypeOK, Numbers
<1>2. ecf.s \in Nat
    BY DEF Typed, TypeOK
<1>3. HandleDefs(h).s = MaxOf(S) /\ HandleDefs(h).m = HandleMax(h).m
      /\ HandleDefs(h).defs = Limited(Now, Scope(h))
    BY DEF HandleDefs, HandleMax
<1> HIDE DEF S
<1>4. MaxOf(S) \in S
    BY <1>1, <1>2, GreatestOf
<1>5. Limited(Now, Scope(h)) \in Defs
    BY NowType, LimitedType DEF Typed
<1> QED BY <1>1, <1>3, <1>4, <1>5, HandleMaxIs

LEMMA FullReplyIs ==
    ASSUME Typed, NEW h \in Handles \cup {0}
    PROVE  /\ FullReply(h) \in [kind : {"full"}, s : Nat, m : Nat, defs : Defs]
           /\ FullReply(h).s <= ecf.s /\ FullReply(h).m <= ecf.m
           /\ UsesCache(h) => FullReply(h).defs = Cached.defs
           /\ ~UsesCache(h) => FullReply(h).defs = Limited(Now, Scope(h))
<1>1. CASE UsesCache(h)
    BY <1>1, CachedIs DEF FullReply, Typed, TypeOK
<1>2. CASE ~UsesCache(h)
    <2>1. h \in Handles
        BY <1>2 DEF UsesCache
    <2> QED BY <1>2, <2>1, HandleDefsIs DEF FullReply
<1> QED BY <1>1, <1>2

LEMMA DeltaReplyIs ==
    ASSUME Typed, NEW c \in Clients, NEW clock \in BOOLEAN
    PROVE  /\ DeltaReply(c, clock) \in [kind : {"delta"}, s : Nat, m : Nat, root : BOOLEAN,
                                        items : SUBSET Suites, cals : SUBSET Suites, now : Defs]
           /\ DeltaReply(c, clock).s <= ecf.s /\ DeltaReply(c, clock).m <= ecf.m
<1> DEFINE h == client[c].h
<1>1. h \in Handles \cup {0}
    BY DEF Typed, TypeOK
<1>2. ChangedItems(c) \subseteq Suites /\ ChangedCals(c, clock) \subseteq Suites
    BY <1>1, ScopeType, LiveType DEF ChangedItems, ChangedCals, Typed
<1>3. Limited(Now, ChangedItems(c) \cup ChangedCals(c, clock)) \in Defs
    BY NowType, LimitedType DEF Typed
<1>4. ServerNo(h).s \in Nat /\ ServerNo(h).s <= ecf.s /\ ServerNo(h).m \in Nat /\ ServerNo(h).m <= ecf.m
    BY <1>1, ServerNoIs
<1> QED BY <1>2, <1>3, <1>4 DEF DeltaReply

LEMMA MergedType ==
    ASSUME NEW d \in Defs, NEW S,
           NEW r \in [kind : {"delta"}, s : Nat, m : Nat, root : BOOLEAN,
                      items : SUBSET Suites, cals : SUBSET Suites, now : Defs]
    PROVE  Merged(d, r, S) \in Defs
BY DEF Merged, Defs

LEMMA RestoredIs ==
    ASSUME NEW d \in Defs
    PROVE  /\ Restored(d).ecf \in [s : Nat, m : Nat]
           /\ Restored(d).root \in [v : Vals, no : Nat] /\ Restored(d).root.no <= Restored(d).ecf.s
           /\ Restored(d).suite \in [Suites -> SuiteType]
           /\ \A n \in Suites : Restored(d).suite[n].sno = 0 /\ Restored(d).suite[n].mno = 0
           /\ \A n \in Suites : ~Restored(d).suite[n].on => Restored(d).suite[n] = NoSuite
<1>1. Cardinality(d.on) \in Nat
    <2>1. IsFiniteSet(d.on)
        BY SyncAssumption, FS_Subset DEF Defs
    <2> QED BY <2>1, FS_CardinalityType
<1>2. d.root \in Vals /\ d.on \subseteq Suites /\ \A n \in Suites : d.item[n] \in Vals /\ d.cal[n] \in Vals
    BY DEF Defs
<1> DEFINE New(n) == [NoSuite EXCEPT !.on = TRUE, !.v = d.item[n], !.cal = d.cal[n]]
<1>3. \A n \in Suites : New(n) \in SuiteType /\ New(n).on /\ New(n).sno = 0 /\ New(n).mno = 0
    BY <1>2, NewSuiteType
<1>4. /\ Restored(d).ecf = [s |-> 1, m |-> 1 + Cardinality(d.on)]
      /\ Restored(d).root = [v |-> d.root, no |-> 1]
      /\ Restored(d).suite = [n \in Suites |-> IF n \in d.on THEN New(n) ELSE NoSuite]
    BY DEF Restored
<1> HIDE DEF New
<1> QED BY <1>1, <1>2, <1>3, <1>4, NoSuiteType

LEMMA RootAfterIs ==
    ASSUME NEW e \in [s : Nat, m : Nat], NEW v \in Vals, root \in [v : Vals, no : Nat],
           root.no <= e.s
    PROVE  /\ RootAfter(e, v).e \in [s : Nat, m : Nat]
           /\ RootAfter(e, v).root \in [v : Vals, no : Nat]
           /\ RootAfter(e, v).root.v = v
           /\ RootAfter(e, v).e.s >= e.s /\ RootAfter(e, v).e.m = e.m
           /\ RootAfter(e, v).root.no <= RootAfter(e, v).e.s
           /\ RootAfter(e, v).root = root \/ RootAfter(e, v).root.no > e.s
<1>1. CASE v = root.v
    BY <1>1 DEF RootAfter
<1>2. CASE v # root.v
    BY <1>2 DEF RootAfter, IncrS
<1> QED BY <1>1, <1>2

HandleType ==
    [on : BOOLEAN, user : Users \cup {None}, auto : BOOLEAN, names : SUBSET Suites,
     changed : BOOLEAN, sno : Nat, mno : Nat]

LEMMA NoHandleType ==
    NoHandle \in HandleType /\ ~NoHandle.on /\ NoHandle.sno = 0 /\ NoHandle.mno = 0
BY DEF NoHandle, HandleType

-----------------------------------------------------------------------------
(* What the server's own steps do to the numbers *)

\* Suite n is as before, but for its calendar.
Kept(n) ==
    /\ suite'[n].on = suite[n].on /\ suite'[n].v = suite[n].v /\ suite'[n].no = suite[n].no
    /\ suite'[n].sno = suite[n].sno /\ suite'[n].mno = suite[n].mno

\* The change of suite n is numbered, in the suite and in the item.
Touched(n) ==
    /\ suite[n].on /\ suite'[n].on
    /\ suite'[n].no > ecf.s /\ suite'[n].sno > ecf.s /\ suite'[n].mno >= suite[n].mno

\* Suite n comes or goes: a structural change, of which every handle that names
\* the suite knows.
Toggled(n) ==
    /\ ecf'.m > ecf.m
    /\ \A h \in Handles : handle[h].on /\ n \in handle'[h].names => handle'[h].changed

\* A suite that is not in the definition has left nothing behind.
Blank == \A n \in Suites : ~suite[n].on => suite[n] = NoSuite

NumberedStep ==
    /\ ecf' \in [s : Nat, m : Nat] /\ ecf'.s >= ecf.s /\ ecf'.m >= ecf.m
    /\ root' \in [v : Vals, no : Nat] /\ root'.no <= ecf'.s
    /\ root' = root \/ root'.no > ecf.s
    /\ suite' \in [Suites -> SuiteType]
    /\ \A n \in Suites : suite'[n].sno <= ecf'.s /\ suite'[n].mno <= ecf'.m
    /\ \A n \in Suites : Kept(n) \/ Touched(n) \/ Toggled(n)
    /\ handle' \in [Handles -> HandleType]
    /\ \A h \in Handles : /\ handle'[h].sno <= ecf'.s /\ handle'[h].mno <= ecf'.m
                          /\ handle'[h].on = handle[h].on
                          /\ handle'[h] = handle[h] \/ handle'[h].changed
    /\ Blank => Blank'
    /\ UNCHANGED <<cache, client, wire, saved>>

LEMMA TypesAre ==
    ASSUME Typed
    PROVE  /\ ecf \in [s : Nat, m : Nat] /\ root \in [v : Vals, no : Nat] /\ root.no <= ecf.s
           /\ suite \in [Suites -> SuiteType] /\ handle \in [Handles -> HandleType]
           /\ \A n \in Suites : suite[n].sno <= ecf.s /\ suite[n].mno <= ecf.m
           /\ \A h \in Handles : handle[h].sno <= ecf.s /\ handle[h].mno <= ecf.m
           /\ client \in [Clients -> Records] /\ wire \in [Clients -> Replies]
           /\ saved \in Defs
BY DEF Typed, TypeOK, Numbers, SuiteType, HandleType, Records

LEMMA IncrIs ==
    ASSUME NEW e \in [s : Nat, m : Nat]
    PROVE  /\ IncrS(e) \in [s : Nat, m : Nat] /\ IncrS(e).s = e.s + 1 /\ IncrS(e).m = e.m
           /\ IncrM(e) \in [s : Nat, m : Nat] /\ IncrM(e).s = e.s /\ IncrM(e).m = e.m + 1
BY DEF IncrS, IncrM

\* Changes of the suites' items, with or without a new structure.
LEMMA TouchNumbered ==
    ASSUME Typed, NEW n \in Suites, suite[n].on,
           ecf' \in [s : Nat, m : Nat], ecf'.s >= ecf.s, ecf'.m >= ecf.m,
           root' \in [v : Vals, no : Nat], root'.no <= ecf'.s, root' = root \/ root'.no > ecf.s,
           suite' \in [Suites -> SuiteType], \A k \in Suites \ {n} : suite'[k] = suite[k],
           suite'[n].on, suite'[n].no > ecf.s, suite'[n].sno > ecf.s, suite'[n].sno <= ecf'.s,
           suite'[n].mno >= suite[n].mno, suite'[n].mno <= ecf'.m,
           UNCHANGED <<handle, cache, client, wire, saved>>
    PROVE  NumberedStep
<1> USE TypesAre
<1>1. \A k \in Suites : suite'[k].sno <= ecf'.s /\ suite'[k].mno <= ecf'.m
    <2> TAKE k \in Suites
    <2>1. CASE k = n
        BY <2>1
    <2>2. CASE k # n
        BY <2>2 DEF SuiteType
    <2> QED BY <2>1, <2>2
<1>2. Touched(n) /\ \A k \in Suites \ {n} : Kept(k)
    BY DEF Touched, Kept
<1>3. Blank => Blank'
    BY DEF Blank
<1>4. \A h \in Handles : handle'[h].sno <= ecf'.s /\ handle'[h].mno <= ecf'.m
    BY DEF HandleType
<1> QED BY <1>1, <1>2, <1>3, <1>4 DEF NumberedStep

LEMMA ChangeItemNumbered ==
    ASSUME Typed, NEW n \in Suites, NEW v \in Vals, NEW rv \in Vals, ChangeItem(n, v, rv)
    PROVE  NumberedStep
<1> USE TypesAre
<1> DEFINE e == IncrS(ecf)  a == RootAfter(e, rv)
<1>1. e \in [s : Nat, m : Nat] /\ e.s = ecf.s + 1 /\ e.m = ecf.m
    BY IncrIs
<1>2. /\ a.e \in [s : Nat, m : Nat] /\ a.root \in [v : Vals, no : Nat] /\ a.e.s >= e.s /\ a.e.m = e.m
      /\ a.root.no <= a.e.s /\ (a.root = root \/ a.root.no > e.s)
    BY <1>1, RootAfterIs
<1>3. /\ suite[n].on /\ ecf' = a.e /\ root' = a.root
      /\ suite' = [suite EXCEPT ![n].v = v, ![n].no = e.s, ![n].sno = a.e.s]
      /\ UNCHANGED <<handle, cache, client, wire, saved>>
    BY DEF ChangeItem
<1> HIDE DEF e, a
<1>4. /\ suite' \in [Suites -> SuiteType] /\ \A k \in Suites \ {n} : suite'[k] = suite[k]
      /\ suite'[n].on /\ suite'[n].no = e.s /\ suite'[n].sno = a.e.s /\ suite'[n].mno = suite[n].mno
    BY <1>1, <1>2, <1>3 DEF SuiteType
<1>5. suite[n].mno \in Nat /\ suite[n].mno <= a.e.m
    BY <1>1, <1>2 DEF SuiteType
<1> QED BY <1>1, <1>2, <1>3, <1>4, <1>5, TouchNumbered

LEMMA RestructureNumbered ==
    ASSUME Typed, NEW n \in Suites, NEW v \in Vals, NEW rv \in Vals, Restructure(n, v, rv)
    PROVE  NumberedStep
<1> USE TypesAre
<1> DEFINE e == IncrS(IncrM(ecf))  a == RootAfter(e, rv)
<1>1. e \in [s : Nat, m : Nat] /\ e.s = ecf.s + 1 /\ e.m = ecf.m + 1 /\ IncrS(ecf).s = ecf.s + 1
    BY IncrIs
<1>2. /\ a.e \in [s : Nat, m : Nat] /\ a.root \in [v : Vals, no : Nat] /\ a.e.s >= e.s /\ a.e.m = e.m
      /\ a.root.no <= a.e.s /\ (a.root = root \/ a.root.no > e.s)
    BY <1>1, RootAfterIs
<1>3. /\ suite[n].on /\ ecf' = a.e /\ root' = a.root
      /\ suite' = [suite EXCEPT ![n].v = v, ![n].no = IncrS(ecf).s, ![n].sno = a.e.s, ![n].mno = a.e.m]
      /\ UNCHANGED <<handle, cache, client, wire, saved>>
    BY DEF Restructure
<1> HIDE DEF e, a
<1>4. /\ suite' \in [Suites -> SuiteType] /\ \A k \in Suites \ {n} : suite'[k] = suite[k]
      /\ suite'[n].on /\ suite'[n].no = ecf.s + 1 /\ suite'[n].sno = a.e.s /\ suite'[n].mno = a.e.m
    BY <1>1, <1>2, <1>3 DEF SuiteType
<1>5. suite[n].mno \in Nat /\ suite[n].mno <= a.e.m
    BY <1>1, <1>2 DEF SuiteType
<1> QED BY <1>1, <1>2, <1>3, <1>4, <1>5, TouchNumbered

LEMMA TickNumbered ==
    ASSUME Typed, NEW n \in Suites, NEW v \in Vals, Tick(n, v)
    PROVE  NumberedStep
<1> USE TypesAre
<1>1. /\ suite[n].on /\ suite' = [suite EXCEPT ![n].cal = v, ![n].calno = IncrS(ecf).s]
      /\ UNCHANGED <<ecf, root, handle, cache, client, wire, saved>>
    BY DEF Tick
<1>2. IncrS(ecf).s \in Nat
    BY IncrIs
<1>3. suite' \in [Suites -> SuiteType]
    BY <1>1, <1>2 DEF SuiteType
<1>4. \A k \in Suites : Kept(k)
    BY <1>1 DEF SuiteType, Kept
<1>5. Blank => Blank'
    BY <1>1, <1>4 DEF SuiteType, Blank, Kept
<1>6. \A k \in Suites : suite'[k].sno <= ecf'.s /\ suite'[k].mno <= ecf'.m
    BY <1>1, <1>4 DEF Kept
<1> QED BY <1>1, <1>3, <1>4, <1>5, <1>6 DEF NumberedStep

LEMMA ChangeRootNumbered ==
    ASSUME Typed, NEW v \in Vals, ChangeRoot(v)
    PROVE  NumberedStep
<1> USE TypesAre
<1>1. /\ ecf' = IncrS(ecf) /\ root' = [v |-> v, no |-> IncrS(ecf).s]
      /\ UNCHANGED <<suite, handle, cache, client, wire, saved>>
    BY DEF ChangeRoot
<1>2. ecf' \in [s : Nat, m : Nat] /\ ecf'.s = ecf.s + 1 /\ ecf'.m = ecf.m
    BY <1>1, IncrIs
<1>3. root' \in [v : Vals, no : Nat] /\ root'.no <= ecf'.s /\ root'.no > ecf.s
    BY <1>1, <1>2
<1>4. \A k \in Suites : Kept(k) /\ suite'[k].sno <= ecf'.s /\ suite'[k].mno <= ecf'.m
    BY <1>1, <1>2 DEF Kept, SuiteType
<1>5. \A h \in Handles : handle'[h].sno <= ecf'.s /\ handle'[h].mno <= ecf'.m
    BY <1>1, <1>2 DEF HandleType
<1> QED BY <1>1, <1>2, <1>3, <1>4, <1>5 DEF NumberedStep, Blank

LEMMA AddSuiteNumbered ==
    ASSUME Typed, NEW n \in Suites, NEW v \in Vals, NEW rv \in Vals, AddSuite(n, v, rv)
    PROVE  NumberedStep
<1> USE TypesAre
<1> DEFINE e == IncrM(ecf)  a == RootAfter(e, rv)
           new == [NoSuite EXCEPT !.on = TRUE, !.v = v]
<1>1. e \in [s : Nat, m : Nat] /\ e.s = ecf.s /\ e.m = ecf.m + 1
    BY IncrIs
<1>2. /\ a.e \in [s : Nat, m : Nat] /\ a.root \in [v : Vals, no : Nat] /\ a.e.s >= e.s /\ a.e.m = e.m
      /\ a.root.no <= a.e.s /\ (a.root = root \/ a.root.no > e.s)
    BY <1>1, RootAfterIs
<1>3. new \in SuiteType /\ new.on /\ new.sno = 0 /\ new.mno = 0
    BY NewSuiteType
<1>4. /\ ecf' = a.e /\ root' = a.root /\ suite' = [suite EXCEPT ![n] = new]
      /\ UNCHANGED <<cache, client, wire, saved>>
    BY DEF AddSuite
<1>5. handle' = [h \in Handles |->
                      IF handle[h].on /\ (handle[h].auto \/ n \in handle[h].names)
                      THEN [handle[h] EXCEPT !.names = @ \cup {n}, !.changed = TRUE]
                      ELSE handle[h]]
    BY DEF AddSuite
<1> HIDE DEF e, a, new
<1>6. suite' \in [Suites -> SuiteType]
      /\ \A k \in Suites : suite'[k].sno <= ecf'.s /\ suite'[k].mno <= ecf'.m
    BY <1>1, <1>2, <1>3, <1>4 DEF SuiteType
<1>7. handle' \in [Handles -> HandleType]
    BY <1>5 DEF HandleType
<1>8. \A h \in Handles : /\ handle'[h].sno = handle[h].sno /\ handle'[h].mno = handle[h].mno
                         /\ handle'[h].on = handle[h].on
                         /\ handle'[h] = handle[h] \/ handle'[h].changed
                         /\ handle[h].on /\ n \in handle'[h].names => handle'[h].changed
    BY <1>5 DEF HandleType
<1>9. \A h \in Handles : handle'[h].sno <= ecf'.s /\ handle'[h].mno <= ecf'.m
    BY <1>1, <1>2, <1>4, <1>8 DEF HandleType
<1>10. Toggled(n) /\ \A k \in Suites \ {n} : Kept(k)
    BY <1>1, <1>2, <1>4, <1>8 DEF Toggled, Kept
<1>11. Blank => Blank'
    BY <1>3, <1>4 DEF Blank
<1> QED BY <1>1, <1>2, <1>4, <1>6, <1>7, <1>8, <1>9, <1>10, <1>11 DEF NumberedStep

LEMMA DeleteSuiteNumbered ==
    ASSUME Typed, NEW n \in Suites, NEW rv \in Vals, DeleteSuite(n, rv)
    PROVE  NumberedStep
<1> USE TypesAre
<1> DEFINE e == IncrM(ecf)  a == RootAfter(e, rv)
<1>1. e \in [s : Nat, m : Nat] /\ e.s = ecf.s /\ e.m = ecf.m + 1
    BY IncrIs
<1>2. /\ a.e \in [s : Nat, m : Nat] /\ a.root \in [v : Vals, no : Nat] /\ a.e.s >= e.s /\ a.e.m = e.m
      /\ a.root.no <= a.e.s /\ (a.root = root \/ a.root.no > e.s)
    BY <1>1, RootAfterIs
<1>3. NoSuite \in SuiteType /\ NoSuite.sno = 0 /\ NoSuite.mno = 0
    BY NoSuiteType
<1>4. /\ ecf' = a.e /\ root' = a.root /\ suite' = [suite EXCEPT ![n] = NoSuite]
      /\ UNCHANGED <<cache, client, wire, saved>>
    BY DEF DeleteSuite
<1>5. handle' = [h \in Handles |->
                      IF handle[h].on /\ n \in handle[h].names
                      THEN [handle[h] EXCEPT !.changed = TRUE, !.mno = a.e.m]
                      ELSE handle[h]]
    BY DEF DeleteSuite
<1> HIDE DEF e, a
<1>6. suite' \in [Suites -> SuiteType]
      /\ \A k \in Suites : suite'[k].sno <= ecf'.s /\ suite'[k].mno <= ecf'.m
    BY <1>1, <1>2, <1>3, <1>4 DEF SuiteType
<1>7. handle' \in [Handles -> HandleType]
    <2>1. a.e.m \in Nat
        BY <1>2
    <2> QED BY <1>5, <2>1 DEF HandleType
<1>8. \A h \in Handles : /\ handle'[h].sno = handle[h].sno
                         /\ handle'[h].mno = handle[h].mno \/ handle'[h].mno = a.e.m
                         /\ handle'[h].on = handle[h].on
                         /\ handle'[h] = handle[h] \/ handle'[h].changed
                         /\ handle[h].on /\ n \in handle'[h].names => handle'[h].changed
    BY <1>5 DEF HandleType
<1>9. \A h \in Handles : handle'[h].sno <= ecf'.s /\ handle'[h].mno <= ecf'.m
    BY <1>1, <1>2, <1>4, <1>8 DEF HandleType
<1>10. Toggled(n) /\ \A k \in Suites \ {n} : Kept(k)
    BY <1>1, <1>2, <1>4, <1>8 DEF Toggled, Kept
<1>11. Blank => Blank'
    BY <1>4 DEF Blank
<1> QED BY <1>1, <1>2, <1>4, <1>6, <1>7, <1>8, <1>9, <1>10, <1>11 DEF NumberedStep

-----------------------------------------------------------------------------
(* The cache *)

\* The cached definition is the server's if its change numbers are.
Fresh ==
    /\ cache.s <= ecf.s /\ cache.m <= ecf.m
    /\ cache.defs # None /\ cache.s = ecf.s /\ cache.m = ecf.m => NoClock(cache.defs) = NoClock(Now)

\* A delta is sent only to a client that has a definition, which it keeps until
\* the delta arrives.
Pending == \A c \in Clients : wire[c].kind = "delta" => client[c].defs # None

Base == Typed /\ Blank /\ Fresh /\ Pending

LEMMA EventIs ==
    ASSUME TypeOK, NEW kind, Event(kind)
    PROVE  kind \in Allowed /\ events' \in 0 .. MaxEvents
BY SyncAssumption DEF Event, TypeOK

LEMMA SameView ==
    ASSUME root' = root, suite \in [Suites -> SuiteType], suite' \in [Suites -> SuiteType],
           \A n \in Suites : suite'[n].on = suite[n].on /\ suite'[n].v = suite[n].v
    PROVE  NoClock(Now)' = NoClock(Now) /\ Live' = Live
<1>1. Live' = Live
    BY DEF Live
<1>2. [n \in Suites |-> suite'[n].v] = [n \in Suites |-> suite[n].v]
    OBVIOUS
<1> QED BY <1>1, <1>2 DEF NoClock, Now

LEMMA NumberedBase ==
    ASSUME Base, NumberedStep, events' \in 0 .. MaxEvents
    PROVE  Base'
<1> USE TypesAre DEF Base
<1>1. Typed'
    <2>1. TypeOK'
        BY DEF NumberedStep, Typed, TypeOK, SuiteType, HandleType
    <2>2. Numbers'
        BY DEF NumberedStep, Numbers
    <2> QED BY <2>1, <2>2 DEF Typed
<1>2. Blank' /\ Pending'
    BY DEF NumberedStep, Pending
<1>3. cache' = cache /\ cache.s \in Nat /\ cache.m \in Nat
    BY DEF NumberedStep, Typed, TypeOK
<1>4. ecf'.s >= ecf.s /\ ecf'.m >= ecf.m /\ ecf'.s \in Nat /\ ecf'.m \in Nat
      /\ ecf.s \in Nat /\ ecf.m \in Nat
    BY DEF NumberedStep
<1>5. cache'.s <= ecf'.s /\ cache'.m <= ecf'.m
    BY <1>3, <1>4 DEF Fresh
<1>6. CASE ecf'.s = ecf.s /\ ecf'.m = ecf.m
    <2>1. root' = root
        BY <1>6 DEF NumberedStep
    <2>2. \A n \in Suites : Kept(n)
        <3> TAKE n \in Suites
        <3>1. ~Toggled(n)
            BY <1>4, <1>6 DEF Toggled
        <3>2. ~Touched(n)
            BY <1>4, <1>6 DEF Touched, NumberedStep, SuiteType
        <3> QED BY <3>1, <3>2 DEF NumberedStep
    <2>3. NoClock(Now)' = NoClock(Now)
        BY <2>1, <2>2, SameView DEF Kept, NumberedStep
    <2>4. NoClock(cache.defs)' = NoClock(cache.defs)
        BY <1>3 DEF NoClock
    <2> QED BY <1>1, <1>2, <1>3, <1>5, <1>6, <2>3, <2>4 DEF Fresh
<1>7. CASE ~(ecf'.s = ecf.s /\ ecf'.m = ecf.m)
    <2>1. ~(cache'.s = ecf'.s /\ cache'.m = ecf'.m)
        BY <1>3, <1>4, <1>7 DEF Fresh
    <2> QED BY <1>1, <1>2, <1>5, <2>1 DEF Fresh
<1> QED BY <1>6, <1>7

LEMMA QueueByPathBase ==
    ASSUME Base, NEW n \in Suites, NEW q \in Suites, NEW v \in Vals, QueueByPath(n, q, v)
    PROVE  Base'
<1> USE TypesAre DEF Base
<1> DEFINE e == IncrS(ecf)
<1>1. e \in [s : Nat, m : Nat] /\ e.s = ecf.s + 1 /\ e.m = ecf.m
    BY IncrIs
<1>2. /\ ecf' = e /\ n # q /\ suite[n].on /\ suite[q].on
      /\ suite' = [suite EXCEPT ![q].v = v, ![q].no = e.s, ![n].sno = e.s]
      /\ UNCHANGED <<root, handle, cache, client, wire, saved>>
    BY DEF QueueByPath
<1>3. events' \in 0 .. MaxEvents
    BY EventIs DEF QueueByPath, Typed
<1> HIDE DEF e
<1>4. /\ suite' \in [Suites -> SuiteType]
      /\ \A k \in Suites : suite'[k].on = suite[k].on /\ suite'[k].mno = suite[k].mno
      /\ \A k \in Suites : suite'[k].sno \in {suite[k].sno, e.s}
      /\ \A k \in Suites \ {n, q} : suite'[k] = suite[k]
    <2> DEFINE x == [suite EXCEPT ![q].v = v, ![q].no = e.s]
    <2>1. e.s \in Nat
        BY <1>1
    <2>2. /\ x \in [Suites -> SuiteType] /\ \A k \in Suites \ {q} : x[k] = suite[k]
          /\ x[q].on = suite[q].on /\ x[q].mno = suite[q].mno /\ x[q].sno = suite[q].sno
        BY <2>1 DEF SuiteType
    <2>3. suite' = [x EXCEPT ![n].sno = e.s]
        BY <1>2
    <2> HIDE DEF x
    <2>4. /\ suite' \in [Suites -> SuiteType] /\ \A k \in Suites \ {n} : suite'[k] = x[k]
          /\ suite'[n].on = x[n].on /\ suite'[n].mno = x[n].mno /\ suite'[n].sno = e.s
        BY <2>1, <2>2, <2>3 DEF SuiteType
    <2> QED BY <2>2, <2>4
<1>5. TypeOK'
    BY <1>1, <1>2, <1>3, <1>4 DEF Typed, TypeOK, SuiteType
<1>6. Numbers'
    <2>1. root'.no <= ecf'.s
        BY <1>1, <1>2
    <2>2. \A k \in Suites : suite'[k].sno <= ecf'.s /\ suite'[k].mno <= ecf'.m
        <3> TAKE k \in Suites
        <3>1. suite[k].sno \in Nat /\ suite[k].sno <= ecf.s /\ suite[k].mno <= ecf.m /\ ecf.s \in Nat
            BY DEF SuiteType
        <3> QED BY <1>1, <1>2, <1>4, <3>1
    <2>3. \A h \in Handles : handle'[h].sno <= ecf'.s /\ handle'[h].mno <= ecf'.m
        BY <1>1, <1>2 DEF HandleType
    <2> QED BY <2>1, <2>2, <2>3 DEF Numbers
<1>7. Blank' /\ Pending'
    BY <1>2, <1>4 DEF Blank, Pending
<1>8. Fresh'
    <2>1. cache.s \in Nat /\ cache.m \in Nat /\ ecf.s \in Nat
        BY DEF Typed, TypeOK
    <2> QED BY <1>1, <1>2, <2>1 DEF Fresh
<1> QED BY <1>5, <1>6, <1>7, <1>8 DEF Typed

LEMMA ClearBase ==
    ASSUME Base, Clear
    PROVE  Base'
<1> USE TypesAre DEF Base
<1>1. /\ ecf' = IncrM(IncrS(ecf)) /\ root' = [v |-> 0, no |-> IncrS(ecf).s]
      /\ suite' = [n \in Suites |-> NoSuite] /\ handle' = NoHandles
      /\ UNCHANGED <<cache, client, wire, saved, events>>
    BY DEF Clear
<1>2. ecf' \in [s : Nat, m : Nat] /\ ecf'.s = ecf.s + 1 /\ ecf'.m = ecf.m + 1 /\ root'.no = ecf.s + 1
    BY <1>1, IncrIs
<1>3. root' \in [v : Vals, no : Nat]
    BY <1>1, <1>2, IncrIs, SyncAssumption
<1>4. suite' \in [Suites -> SuiteType] /\ handle' \in [Handles -> HandleType]
    BY <1>1, NoSuiteType, NoHandleType DEF NoHandles
<1>5. TypeOK'
    BY <1>1, <1>2, <1>3, <1>4 DEF Typed, TypeOK, SuiteType, HandleType
<1>6. Numbers'
    BY <1>1, <1>2, NoSuiteType, NoHandleType DEF Numbers, NoHandles
<1>7. Blank' /\ Pending'
    BY <1>1 DEF Blank, Pending
<1>8. Fresh'
    <2>1. cache.s \in Nat /\ cache.m \in Nat /\ ecf.s \in Nat
        BY DEF Typed, TypeOK
    <2> QED BY <1>1, <1>2, <2>1 DEF Fresh
<1> QED BY <1>5, <1>6, <1>7, <1>8 DEF Typed

\* The server's memory just after it has read a definition.
LEMMA StartBase ==
    ASSUME NEW d \in Defs
    PROVE  \A e, r, su : e = Restored(d).ecf /\ r = Restored(d).root /\ su = Restored(d).suite
             => /\ e \in [s : Nat, m : Nat] /\ r \in [v : Vals, no : Nat] /\ r.no <= e.s
                /\ su \in [Suites -> SuiteType]
                /\ \A n \in Suites : su[n].sno <= e.s /\ su[n].mno <= e.m
                /\ \A n \in Suites : ~su[n].on => su[n] = NoSuite
BY RestoredIs

LEMMA RestartBase ==
    ASSUME Base, Restart
    PROVE  Base'
<1> USE TypesAre DEF Base
<1>1. /\ ecf' = Restored(saved).ecf /\ root' = Restored(saved).root
      /\ suite' = Restored(saved).suite /\ handle' = NoHandles /\ cache' = NoCache
      /\ wire' = [c \in Clients |-> NoReply] /\ UNCHANGED <<client, saved>>
    BY DEF Restart
<1>2. events' \in 0 .. MaxEvents
    BY EventIs DEF Restart, Typed
<1>3. /\ ecf' \in [s : Nat, m : Nat] /\ root' \in [v : Vals, no : Nat] /\ root'.no <= ecf'.s
      /\ suite' \in [Suites -> SuiteType]
      /\ \A n \in Suites : suite'[n].sno <= ecf'.s /\ suite'[n].mno <= ecf'.m
      /\ \A n \in Suites : ~suite'[n].on => suite'[n] = NoSuite
    BY <1>1, StartBase
<1>4. handle' \in [Handles -> HandleType] /\ \A h \in Handles : handle'[h].sno = 0 /\ handle'[h].mno = 0
    BY <1>1, NoHandleType DEF NoHandles
<1>5. cache' \in [s : Nat, m : Nat, defs : Defs \cup {None}] /\ cache'.s = 0 /\ cache'.m = 0
      /\ cache'.defs = None
    BY <1>1 DEF NoCache
<1>6. TypeOK'
    BY <1>1, <1>2, <1>3, <1>4, <1>5 DEF Typed, TypeOK, SuiteType, HandleType, Replies
<1>7. Numbers'
    BY <1>3, <1>4 DEF Numbers
<1>8. Fresh'
    BY <1>3, <1>5 DEF Fresh
<1>9. Pending'
    BY <1>1 DEF Pending, NoReply
<1> QED BY <1>3, <1>6, <1>7, <1>8, <1>9 DEF Typed, Blank

LEMMA InitBase == Init => Base
<1> SUFFICES ASSUME Init PROVE Base
    OBVIOUS
<1>1. saved \in Defs
    BY SyncAssumption DEF Init, Defs
<1>2. /\ ecf \in [s : Nat, m : Nat] /\ root \in [v : Vals, no : Nat] /\ root.no <= ecf.s
      /\ suite \in [Suites -> SuiteType]
      /\ \A n \in Suites : suite[n].sno <= ecf.s /\ suite[n].mno <= ecf.m
      /\ \A n \in Suites : ~suite[n].on => suite[n] = NoSuite
    BY <1>1, StartBase DEF Init
<1>3. handle \in [Handles -> HandleType] /\ \A h \in Handles : handle[h].sno = 0 /\ handle[h].mno = 0
    BY NoHandleType DEF NoHandles, Init
<1>4. cache \in [s : Nat, m : Nat, defs : Defs \cup {None}] /\ cache.s = 0 /\ cache.m = 0 /\ cache.defs = None
    BY DEF NoCache, Init
<1>5. TypeOK
    BY <1>1, <1>2, <1>3, <1>4, SyncAssumption DEF Init, TypeOK, SuiteType, HandleType, Replies
<1>6. Numbers
    BY <1>2, <1>3 DEF Numbers
<1>7. Fresh
    BY <1>2, <1>4 DEF Fresh
<1>8. Pending
    BY DEF Init, Pending, NoReply
<1> QED BY <1>2, <1>5, <1>6, <1>7, <1>8 DEF Base, Typed, Blank

-----------------------------------------------------------------------------
(* Requests and replies *)

\* A reply is taken by the client, lost, or none is on its way.
LEMMA QuietBase ==
    ASSUME Base, UNCHANGED <<ecf, root, suite, handle, cache, saved>>, events' \in 0 .. MaxEvents,
           client' \in [Clients -> Records], wire' \in [Clients -> Replies], Pending'
    PROVE  Base'
<1> USE DEF Base
<1>1. Typed'
    BY DEF Typed, TypeOK, Numbers, Records
<1>2. Blank'
    BY DEF Blank
<1>3. Fresh'
    BY DEF Fresh, NoClock, Now, Live
<1> QED BY <1>1, <1>2, <1>3

\* A command on handles.
LEMMA HandleBase ==
    ASSUME Base, NEW STATE reply, NEW c \in Clients, wire' = [wire EXCEPT ![c] = reply],
           UNCHANGED <<ecf, root, suite, cache, client, saved>>,
           handle' \in [Handles -> HandleType],
           \A h \in Handles : handle'[h].sno <= ecf.s /\ handle'[h].mno <= ecf.m,
           reply \in Replies, reply.kind # "delta", events' \in 0 .. MaxEvents
    PROVE  Base'
<1> USE DEF Base
<1>2. wire' \in [Clients -> Replies]
    BY TypesAre
<1>3. TypeOK'
    BY <1>2 DEF Typed, TypeOK, HandleType
<1>4. Numbers'
    BY DEF Typed, Numbers
<1>5. Blank' /\ Pending'
    BY TypesAre DEF Blank, Pending
<1>6. Fresh'
    BY DEF Fresh, NoClock, Now, Live
<1> QED BY <1>3, <1>4, <1>5, <1>6 DEF Typed

LEMMA SyncReplyIs ==
    ASSUME Typed, NEW c \in Clients, NEW clock \in BOOLEAN
    PROVE  SyncReply(c, clock) \in Replies
<1>1. client[c].h \in Handles \cup {0}
    BY TypesAre DEF Records
<1> QED BY <1>1, FullReplyIs, DeltaReplyIs DEF SyncReply, Replies

LEMMA CachedFresh ==
    ASSUME Base
    PROVE  NoClock(Cached.defs) = NoClock(Now)
BY DEF Base, Cached, Fresh

\* What a full reply does to the record of a handle, as an operation on one record.
LEMMA ClearedHandle ==
    ASSUME NEW r \in HandleType, NEW n, n = [r EXCEPT !.changed = FALSE]
    PROVE  /\ n \in HandleType /\ n.on = r.on /\ n.names = r.names /\ n.auto = r.auto
           /\ n.sno = r.sno /\ n.mno = r.mno
BY DEF HandleType

\* A full reply goes through the cache and clears the flag of the handle.
LEMMA AfterFullIs ==
    ASSUME Base, NEW h \in Handles \cup {0}, AfterFull(h)
    PROVE  /\ cache' \in {cache, Cached}
           /\ handle' \in [Handles -> HandleType]
           /\ \A g \in Handles \ {h} : handle'[g] = handle[g]
           /\ h # 0 => /\ handle'[h].on = handle[h].on /\ handle'[h].names = handle[h].names
                       /\ handle'[h].auto = handle[h].auto
           /\ \A g \in Handles : handle'[g].sno <= ecf.s /\ handle'[g].mno <= ecf.m
<1> USE TypesAre DEF Base
<1>1. cache' \in {cache, Cached}
    BY DEF AfterFull
<1>2. CASE h = 0
    BY <1>1, <1>2, HandlesType DEF AfterFull
<1>3. CASE h # 0 /\ AllRegistered(h)
    <2>1. handle' = [handle EXCEPT ![h].changed = FALSE, ![h].sno = ecf.s, ![h].mno = ecf.m]
        BY <1>3 DEF AfterFull
    <2>2. h \in Handles /\ ecf.s \in Nat /\ ecf.m \in Nat
        BY <1>3
    <2>3. /\ handle' \in [Handles -> HandleType] /\ \A g \in Handles \ {h} : handle'[g] = handle[g]
          /\ handle'[h].on = handle[h].on /\ handle'[h].names = handle[h].names
          /\ handle'[h].auto = handle[h].auto
          /\ handle'[h].sno = ecf.s /\ handle'[h].mno = ecf.m
        <3>1. handle \in [Handles -> HandleType] /\ handle[h] \in HandleType
            BY <2>2, HandlesType
        <3>2. PICK q : q = [handle[h] EXCEPT !.changed = FALSE]
            OBVIOUS
        <3>3. /\ q \in HandleType /\ q.on = handle[h].on /\ q.names = handle[h].names
              /\ q.auto = handle[h].auto
            BY <3>1, <3>2, ClearedHandle
        <3>4. PICK p : p = [q EXCEPT !.sno = ecf.s]
            OBVIOUS
        <3>5. /\ p \in HandleType /\ p.on = q.on /\ p.names = q.names /\ p.auto = q.auto
              /\ p.sno = ecf.s
            BY <2>2, <3>3, <3>4 DEF HandleType
        <3>6. PICK n : n = [p EXCEPT !.mno = ecf.m]
            OBVIOUS
        <3>7. /\ n \in HandleType /\ n.on = p.on /\ n.names = p.names /\ n.auto = p.auto
              /\ n.sno = p.sno /\ n.mno = ecf.m
            BY <2>2, <3>5, <3>6 DEF HandleType
        <3>8. handle' = [handle EXCEPT ![h] = n]
            BY <2>1, <3>1, <3>2, <3>4, <3>6
        <3> QED BY <2>2, <3>1, <3>3, <3>5, <3>7, <3>8
    <2>4. \A g \in Handles : handle'[g].sno <= ecf.s /\ handle'[g].mno <= ecf.m
        BY <2>2, <2>3
    <2> QED BY <1>1, <2>3, <2>4
<1>4. CASE h # 0 /\ ~AllRegistered(h)
    <2>1. handle' = [handle EXCEPT ![h].changed = FALSE]
        BY <1>4 DEF AfterFull
    <2>2. h \in Handles
        BY <1>4
    <2>3. /\ handle' \in [Handles -> HandleType] /\ \A g \in Handles \ {h} : handle'[g] = handle[g]
          /\ handle'[h].on = handle[h].on /\ handle'[h].names = handle[h].names
          /\ handle'[h].auto = handle[h].auto
          /\ handle'[h].sno = handle[h].sno /\ handle'[h].mno = handle[h].mno
        <3>0. PICK n : n = [handle[h] EXCEPT !.changed = FALSE]
            OBVIOUS
        <3>1. handle \in [Handles -> HandleType] /\ handle[h] \in HandleType
            BY <2>2, HandlesType
        <3>2. handle' = [handle EXCEPT ![h] = n]
            BY <2>1, <3>0, <3>1
        <3>3. /\ n \in HandleType /\ n.on = handle[h].on /\ n.names = handle[h].names
              /\ n.auto = handle[h].auto /\ n.sno = handle[h].sno /\ n.mno = handle[h].mno
            BY <3>0, <3>1, ClearedHandle
        <3> QED BY <2>2, <3>1, <3>2, <3>3
    <2>4. \A g \in Handles : handle'[g].sno <= ecf.s /\ handle'[g].mno <= ecf.m
        BY <2>2, <2>3
    <2> QED BY <1>1, <2>3, <2>4
<1> QED BY <1>2, <1>3, <1>4

LEMMA SyncBase ==
    ASSUME Base, NEW c \in Clients, NEW clock \in BOOLEAN, Sync(c, clock)
    PROVE  Base'
<1> USE TypesAre DEF Base
<1>1. UNCHANGED <<ecf, root, suite, client, saved, events>>
    BY DEF Sync
<1>2. wire' \in [Clients -> Replies]
    BY SyncReplyIs DEF Sync
<1>3. client[c].h \in Handles \cup {0}
    BY DEF Records
<1>4. /\ cache' \in {cache, Cached} /\ handle' \in [Handles -> HandleType]
      /\ \A g \in Handles : handle'[g].sno <= ecf.s /\ handle'[g].mno <= ecf.m
    BY <1>3, AfterFullIs DEF Sync
<1>5. cache' \in [s : Nat, m : Nat, defs : Defs \cup {None}]
    BY <1>4, CachedIs DEF Typed, TypeOK
<1>6. Typed'
    BY <1>1, <1>2, <1>4, <1>5 DEF Typed, TypeOK, Numbers, HandleType
<1>7. Blank' /\ Pending'
    <2>1. Blank'
        BY <1>1 DEF Blank
    <2>2. wire' = [wire EXCEPT ![c] = SyncReply(c, clock)]
        BY DEF Sync
    <2>3. SyncReply(c, clock).kind = "delta" => client[c].defs # None
        BY <1>3, FullReplyIs DEF SyncReply, SendsFull
    <2>4. Pending'
        BY <1>1, <2>2, <2>3 DEF Pending
    <2> QED BY <2>1, <2>4
<1>8. NoClock(Now)' = NoClock(Now)
    BY <1>1 DEF NoClock, Now, Live
<1>9. Fresh'
    <2>1. CASE cache' = cache
        <3>1. NoClock(cache.defs)' = NoClock(cache.defs)
            BY <2>1 DEF NoClock
        <3> QED BY <1>1, <1>8, <2>1, <3>1 DEF Fresh
    <2>2. CASE cache' = Cached
        <3>1. cache'.s = ecf.s /\ cache'.m = ecf.m
            BY <2>2, CachedIs DEF Typed
        <3>2. NoClock(cache.defs)' = NoClock(Cached.defs)
            BY <2>2 DEF NoClock
        <3> QED BY <1>1, <1>8, <3>1, <3>2, CachedFresh DEF Fresh
    <2> QED BY <1>4, <2>1, <2>2
<1> QED BY <1>6, <1>7, <1>9

LEMMA ReplyCases ==
    ASSUME NEW r \in Replies
    PROVE  /\ r.kind \in {"none", "handle", "full", "delta"}
           /\ r.kind = "full" => r \in [kind : {"full"}, s : Nat, m : Nat, defs : Defs]
           /\ r.kind = "delta" => r \in [kind : {"delta"}, s : Nat, m : Nat, root : BOOLEAN,
                                         items : SUBSET Suites, cals : SUBSET Suites, now : Defs]
           /\ r.kind = "handle" => r \in [kind : {"handle"}, h : Handles \cup {0}]
BY DEF Replies, NoReply

LEMMA NoReplyType == NoReply \in Replies /\ NoReply.kind = "none"
BY DEF Replies, NoReply

LEMMA AppliedIs ==
    ASSUME NEW cl \in Records, NEW r \in Replies, NEW S, r.kind \in {"full", "delta"},
           r.kind = "delta" => cl.defs # None
    PROVE  /\ Applied(cl, r, S) \in Records /\ Applied(cl, r, S).defs \in Defs
           /\ Applied(cl, r, S).h = cl.h /\ Applied(cl, r, S).s = r.s /\ Applied(cl, r, S).m = r.m
           /\ r.kind = "full" => Applied(cl, r, S).defs = r.defs
           /\ r.kind = "delta" => Applied(cl, r, S).defs = Merged(cl.defs, r, S)
<1>1. CASE r.kind = "full"
    BY <1>1, ReplyCases DEF Applied, Records
<1>2. CASE r.kind = "delta"
    <2>1. cl.defs \in Defs /\ r.s \in Nat /\ r.m \in Nat
        BY <1>2, ReplyCases DEF Records
    <2>2. Merged(cl.defs, r, S) \in Defs
        BY <1>2, <2>1, ReplyCases, MergedType
    <2>3. Applied(cl, r, S) = [cl EXCEPT !.s = r.s, !.m = r.m, !.defs = Merged(cl.defs, r, S)]
        BY <1>2 DEF Applied
    <2> QED BY <1>2, <2>1, <2>2, <2>3 DEF Records
<1> QED BY <1>1, <1>2

\* A delta that names a suite the copy does not have is applied in part.
LEMMA DeliverSyncIs ==
    ASSUME Base, NEW c \in Clients, DeliverSync(c)
    PROVE  /\ wire[c].kind \in {"full", "delta"} /\ wire[c] \in Replies /\ client[c] \in Records
           /\ \E S : client' = [client EXCEPT ![c] = Applied(client[c], wire[c], S)]
                     /\ (S = Suites \/ (wire[c].kind = "delta" /\ Misfit(client[c].defs, wire[c])))
           /\ wire' = [wire EXCEPT ![c] = NoReply]
           /\ UNCHANGED <<ecf, root, suite, handle, cache, saved, events>>
<1>1. /\ wire[c].kind \in {"full", "delta"} /\ wire' = [wire EXCEPT ![c] = NoReply]
      /\ UNCHANGED <<ecf, root, suite, handle, cache, saved, events>>
    BY DEF DeliverSync, server
<1>2. wire[c] \in Replies /\ client[c] \in Records
    BY TypesAre DEF Base
<1> DEFINE T == IF wire[c].kind = "delta" /\ Misfit(client[c].defs, wire[c])
                THEN SUBSET client[c].defs.on ELSE {Suites}
<1>3. PICK S \in T : client' = [client EXCEPT ![c] = Applied(client[c], wire[c], S)]
    <2>1. \E S \in T : client' = [client EXCEPT ![c] = Applied(@, wire[c], S)]
        BY DEF DeliverSync
    <2>2. \A S : [client EXCEPT ![c] = Applied(@, wire[c], S)]
                    = [client EXCEPT ![c] = Applied(client[c], wire[c], S)]
        BY TypesAre DEF Base
    <2> HIDE DEF T
    <2> QED BY <2>1, <2>2
<1>4. S = Suites \/ (wire[c].kind = "delta" /\ Misfit(client[c].defs, wire[c]))
    BY <1>3
<1> QED BY <1>1, <1>2, <1>3, <1>4

LEMMA DeliverSyncBase ==
    ASSUME Base, NEW c \in Clients, DeliverSync(c)
    PROVE  Base'
<1>1. PICK S : client' = [client EXCEPT ![c] = Applied(client[c], wire[c], S)]
    BY DeliverSyncIs
<1>2. /\ wire' = [wire EXCEPT ![c] = NoReply] /\ wire[c].kind \in {"full", "delta"} /\ wire[c] \in Replies
      /\ UNCHANGED <<ecf, root, suite, handle, cache, saved, events>>
    BY DeliverSyncIs
<1>3. wire[c].kind = "delta" => client[c].defs # None
    BY DEF Base, Pending
<1>4. client[c] \in Records /\ client \in [Clients -> Records] /\ wire \in [Clients -> Replies]
    BY TypesAre DEF Base
<1>5. Applied(client[c], wire[c], S) \in Records
    BY <1>2, <1>3, <1>4, AppliedIs
<1>6. client' \in [Clients -> Records] /\ wire' \in [Clients -> Replies]
    BY <1>1, <1>2, <1>4, <1>5, NoReplyType
<1>7. Pending'
    BY <1>1, <1>2, <1>4, NoReplyType DEF Base, Pending
<1>8. events' \in 0 .. MaxEvents
    BY <1>2 DEF Base, Typed, TypeOK
<1> QED BY <1>2, <1>6, <1>7, <1>8, QuietBase

LEMMA DeliverHandleBase ==
    ASSUME Base, NEW c \in Clients, DeliverHandle(c)
    PROVE  Base'
<1>1. /\ client' = [client EXCEPT ![c].h = wire[c].h] /\ wire' = [wire EXCEPT ![c] = NoReply]
      /\ wire[c].kind = "handle" /\ UNCHANGED <<ecf, root, suite, handle, cache, saved, events>>
    BY DEF DeliverHandle, server
<1>2. client \in [Clients -> Records] /\ wire \in [Clients -> Replies]
    BY TypesAre DEF Base
<1>3. wire[c].h \in Handles \cup {0}
    BY <1>1, <1>2, ReplyCases
<1>4. client' \in [Clients -> Records] /\ wire' \in [Clients -> Replies]
    BY <1>1, <1>2, <1>3, NoReplyType DEF Records
<1>5. Pending'
    BY <1>1, <1>2, NoReplyType DEF Base, Pending
<1>6. events' \in 0 .. MaxEvents
    BY <1>1 DEF Base, Typed, TypeOK
<1> QED BY <1>1, <1>4, <1>5, <1>6, QuietBase

LEMMA LoseBase ==
    ASSUME Base, NEW c \in Clients, Lose(c)
    PROVE  Base'
<1>1. wire' = [wire EXCEPT ![c] = NoReply] /\ UNCHANGED <<ecf, root, suite, handle, cache, client, saved>>
    BY DEF Lose
<1>2. client \in [Clients -> Records] /\ wire \in [Clients -> Replies]
    BY TypesAre DEF Base
<1>3. client' \in [Clients -> Records] /\ wire' \in [Clients -> Replies]
    BY <1>1, <1>2, NoReplyType
<1>4. Pending'
    BY <1>1, <1>2, NoReplyType DEF Base, Pending
<1>5. events' \in 0 .. MaxEvents
    BY EventIs DEF Base, Typed, TypeOK, Lose
<1> QED BY <1>1, <1>3, <1>4, <1>5, QuietBase

LEMMA ResetBase ==
    ASSUME Base, NEW c \in Clients, Reset(c)
    PROVE  Base'
<1>1. /\ client' = [client EXCEPT ![c] = [client[c] EXCEPT !.h = 0, !.defs = None]]
      /\ wire[c].kind = "none" /\ UNCHANGED <<ecf, root, suite, handle, cache, saved, wire, events>>
    BY DEF Reset, server, Idle
<1>2. client \in [Clients -> Records] /\ wire \in [Clients -> Replies]
    BY TypesAre DEF Base
<1>3. client' \in [Clients -> Records] /\ wire' \in [Clients -> Replies]
    BY <1>1, <1>2 DEF Records
<1>4. Pending'
    BY <1>1, <1>2 DEF Base, Pending
<1>5. events' \in 0 .. MaxEvents
    BY <1>1 DEF Base, Typed, TypeOK
<1> QED BY <1>1, <1>3, <1>4, <1>5, QuietBase

LEMMA NewHandleIs ==
    ASSUME NEW hs, FreeHandles(hs) # {}
    PROVE  NewHandle(hs) \in Handles /\ ~hs[NewHandle(hs)].on
<1>1. \E h \in FreeHandles(hs) : \A g \in FreeHandles(hs) : h <= g
    BY LeastOf, HandlesType DEF FreeHandles
<1> QED BY <1>1 DEF NewHandle, FreeHandles

\* The handles after a registration that gives client c the handle h.
Registered(c, old, h) ==
    /\ wire' = [wire EXCEPT ![c] = [kind |-> "handle", h |-> h]]
    /\ handle'[h].on /\ (h = old \/ ~handle[h].on)
    /\ handle'[h].sno = 0 /\ handle'[h].mno = 0
    /\ \A g \in Handles \ {h, old} : handle'[g] = handle[g]
    /\ old # 0 /\ old # h => handle'[old] = NoHandle

LEMMA RegisterIs ==
    ASSUME Base, NEW c \in Clients, NEW old \in {0, client[c].h}, NEW names \in SUBSET Suites,
           NEW auto \in BOOLEAN, Register(c, old, names, auto)
    PROVE  /\ handle' \in [Handles -> HandleType] /\ events' \in 0 .. MaxEvents
           /\ wire[c].kind = "none" /\ UNCHANGED <<ecf, root, suite, cache, client, saved>>
           /\ (client[c].defs = None /\ "register" \in Allowed) \/ "reregister" \in Allowed
           /\ \E h \in Handles : Registered(c, old, h)
<1> DEFINE kept == IF old = 0 THEN handle ELSE [handle EXCEPT ![old] = NoHandle]
           h == NewHandle(kept)
           new == [on |-> TRUE, user |-> UserOf[c], auto |-> auto, names |-> names,
                   changed |-> names \cap Live # {}, sno |-> 0, mno |-> 0]
<1>1. handle \in [Handles -> HandleType] /\ client[c].h \in Handles \cup {0}
    BY TypesAre DEF Base, Records
<1>2. /\ FreeHandles(kept) # {} /\ handle' = [kept EXCEPT ![h] = new] /\ wire[c].kind = "none"
      /\ wire' = [wire EXCEPT ![c] = [kind |-> "handle", h |-> h]]
      /\ UNCHANGED <<ecf, root, suite, cache, client, saved>>
    BY DEF Register, HandleCmd, Idle
<1>3. h \in Handles /\ ~kept[h].on
    <2> HIDE DEF kept
    <2> QED BY <1>2, NewHandleIs
<1>4. new \in HandleType /\ new.on /\ new.sno = 0 /\ new.mno = 0
    BY DEF HandleType, Users
<1>5. kept \in [Handles -> HandleType]
    BY <1>1, NoHandleType
<1>6. \A g \in Handles \ {old} : kept[g] = handle[g]
    BY <1>1
<1>7. old # 0 => kept[old] = NoHandle
    BY <1>1
<1> HIDE DEF new, h, kept
<1>8. handle' \in [Handles -> HandleType] /\ handle'[h] = new /\ \A g \in Handles \ {h} : handle'[g] = kept[g]
    BY <1>2, <1>3, <1>4, <1>5
<1>9. old # 0 => old \in Handles
    BY <1>1
<1>10. handle'[h].on /\ handle'[h].sno = 0 /\ handle'[h].mno = 0
    BY <1>4, <1>8
<1>11. h = old \/ ~handle[h].on
    BY <1>3, <1>6
<1>12. \A g \in Handles \ {h, old} : handle'[g] = handle[g]
    BY <1>6, <1>8
<1>13. old # 0 /\ old # h => handle'[old] = NoHandle
    BY <1>7, <1>8, <1>9
<1>14. /\ events' \in 0 .. MaxEvents
       /\ (client[c].defs = None /\ "register" \in Allowed) \/ "reregister" \in Allowed
    BY EventIs DEF Register, Base, Typed, TypeOK
<1>15. Registered(c, old, h)
    BY <1>2, <1>10, <1>11, <1>12, <1>13 DEF Registered
<1> QED BY <1>2, <1>3, <1>8, <1>14, <1>15

LEMMA RegisterBase ==
    ASSUME Base, NEW c \in Clients, NEW old \in {0, client[c].h}, NEW names \in SUBSET Suites,
           NEW auto \in BOOLEAN, Register(c, old, names, auto)
    PROVE  Base'
<1>1. PICK h \in Handles : Registered(c, old, h)
    BY RegisterIs
<1>2. /\ handle' \in [Handles -> HandleType] /\ events' \in 0 .. MaxEvents
      /\ UNCHANGED <<ecf, root, suite, cache, client, saved>>
    BY RegisterIs
<1> USE TypesAre DEF Base
<1>3. \A g \in Handles : handle'[g].sno <= ecf.s /\ handle'[g].mno <= ecf.m
    <2> TAKE g \in Handles
    <2>1. CASE g = h
        BY <1>1, <2>1 DEF Registered
    <2>2. CASE g # h /\ g = old
        BY <1>1, <2>2, NoHandleType, HandlesType DEF Registered
    <2>3. CASE g # h /\ g # old
        BY <1>1, <2>3 DEF Registered
    <2> QED BY <2>1, <2>2, <2>3
<1>4. [kind |-> "handle", h |-> h] \in Replies /\ [kind |-> "handle", h |-> h].kind # "delta"
    BY DEF Replies
<1> QED BY <1>1, <1>2, <1>3, <1>4, HandleBase DEF Registered

\* A client's command on the suites of its own handle, which may set the flag.
OwnCmd(c) ==
    LET h == client[c].h IN
    /\ "register" \in Allowed /\ h # 0 /\ handle[h].on /\ wire[c].kind = "none"
    /\ handle' \in [Handles -> HandleType]
    /\ \A g \in Handles \ {h} : handle'[g] = handle[g]
    /\ handle'[h].on /\ handle'[h].sno = handle[h].sno /\ handle'[h].mno = handle[h].mno
    /\ handle[h].changed => handle'[h].changed
    /\ \/ handle'[h].changed
       \/ handle'[h].names \cap Live = handle[h].names \cap Live
    /\ wire' = [wire EXCEPT ![c] = NoReply]
    /\ UNCHANGED <<ecf, root, suite, cache, client, saved, events>>

LEMMA FlaggedIs ==
    ASSUME handle \in [Handles -> HandleType], NEW h \in Handles, NEW ns \in SUBSET Suites,
           NEW b \in {TRUE, FALSE}, handle' = [handle EXCEPT ![h].names = ns, ![h].changed = b]
    PROVE  /\ handle' \in [Handles -> HandleType] /\ \A g \in Handles \ {h} : handle'[g] = handle[g]
           /\ handle'[h].on = handle[h].on /\ handle'[h].sno = handle[h].sno
           /\ handle'[h].mno = handle[h].mno /\ handle'[h].names = ns
           /\ handle'[h].changed = b
<1> DEFINE r == handle[h]
           q == [r EXCEPT !.names = ns, !.changed = b]
<1>1. r \in HandleType
    OBVIOUS
<1>2. handle' = [handle EXCEPT ![h] = q]
    OBVIOUS
<1> HIDE DEF r
<1>3. /\ q \in HandleType /\ q.on = r.on /\ q.sno = r.sno /\ q.mno = r.mno
      /\ q.names = ns /\ q.changed = b
    BY <1>1 DEF HandleType
<1> HIDE DEF q
<1>4. /\ handle' \in [Handles -> HandleType] /\ \A g \in Handles \ {h} : handle'[g] = handle[g]
      /\ handle'[h] = q
    BY <1>2, <1>3
<1> QED BY <1>3, <1>4 DEF r

LEMMA AddToHandleOwn ==
    ASSUME Base, NEW c \in Clients, NEW n \in Suites, AddToHandle(c, n)
    PROVE  OwnCmd(c)
<1> USE TypesAre DEF Base
<1> DEFINE h == client[c].h
<1>1. /\ "register" \in Allowed /\ h # 0 /\ Known(h) /\ wire[c].kind = "none"
      /\ handle' = [handle EXCEPT ![h].names = @ \cup {n}, ![h].changed = @ \/ suite[n].on]
      /\ wire' = [wire EXCEPT ![c] = NoReply]
      /\ UNCHANGED <<ecf, root, suite, cache, client, saved, events>>
    BY DEF AddToHandle, HandleCmd, Idle
<1>2. h \in Handles /\ handle[h].on
    BY <1>1 DEF Known
<1> HIDE DEF h
<1> DEFINE ns == handle[h].names \cup {n}
           on == [handle EXCEPT ![h].names = ns, ![h].changed = TRUE]
           off == [handle EXCEPT ![h].names = ns, ![h].changed = FALSE]
<1>3. ns \in SUBSET Suites
    BY <1>2 DEF HandleType
<1>4. handle' = IF handle[h].changed \/ suite[n].on THEN on ELSE off
    BY <1>1, <1>2 DEF HandleType
<1>5. /\ handle' \in [Handles -> HandleType] /\ \A g \in Handles \ {h} : handle'[g] = handle[g]
      /\ handle'[h].on /\ handle'[h].sno = handle[h].sno /\ handle'[h].mno = handle[h].mno
      /\ handle'[h].names = ns
      /\ handle[h].changed \/ suite[n].on => handle'[h].changed
    <2>1. CASE handle[h].changed \/ suite[n].on
        <3>1. handle' = on /\ TRUE \in {TRUE, FALSE}
            BY <1>4, <2>1
        <3> QED BY <1>2, <1>3, <3>1, FlaggedIs
    <2>2. CASE ~(handle[h].changed \/ suite[n].on)
        <3>1. handle' = off /\ FALSE \in {TRUE, FALSE}
            BY <1>4, <2>2
        <3> QED BY <1>2, <1>3, <2>2, <3>1, FlaggedIs
    <2> QED BY <2>1, <2>2
<1>6. handle'[h].changed \/ handle'[h].names \cap Live = handle[h].names \cap Live
    BY <1>5 DEF Live
<1> QED BY <1>1, <1>2, <1>5, <1>6 DEF OwnCmd, h

LEMMA RemoveFromHandleOwn ==
    ASSUME Base, NEW c \in Clients, NEW n \in Suites, RemoveFromHandle(c, n)
    PROVE  OwnCmd(c)
<1> USE TypesAre DEF Base
<1> DEFINE h == client[c].h
<1>1. /\ "register" \in Allowed /\ h # 0 /\ Known(h) /\ wire[c].kind = "none"
      /\ handle' = [handle EXCEPT ![h].names = @ \ {n}, ![h].changed = @ \/ suite[n].on]
      /\ wire' = [wire EXCEPT ![c] = NoReply]
      /\ UNCHANGED <<ecf, root, suite, cache, client, saved, events>>
    BY DEF RemoveFromHandle, HandleCmd, Idle
<1>2. h \in Handles /\ handle[h].on
    BY <1>1 DEF Known
<1> HIDE DEF h
<1> DEFINE ns == handle[h].names \ {n}
           on == [handle EXCEPT ![h].names = ns, ![h].changed = TRUE]
           off == [handle EXCEPT ![h].names = ns, ![h].changed = FALSE]
<1>3. ns \in SUBSET Suites
    BY <1>2 DEF HandleType
<1>4. handle' = IF handle[h].changed \/ suite[n].on THEN on ELSE off
    BY <1>1, <1>2 DEF HandleType
<1>5. /\ handle' \in [Handles -> HandleType] /\ \A g \in Handles \ {h} : handle'[g] = handle[g]
      /\ handle'[h].on /\ handle'[h].sno = handle[h].sno /\ handle'[h].mno = handle[h].mno
      /\ handle'[h].names = ns
      /\ handle[h].changed \/ suite[n].on => handle'[h].changed
    <2>1. CASE handle[h].changed \/ suite[n].on
        <3>1. handle' = on /\ TRUE \in {TRUE, FALSE}
            BY <1>4, <2>1
        <3> QED BY <1>2, <1>3, <3>1, FlaggedIs
    <2>2. CASE ~(handle[h].changed \/ suite[n].on)
        <3>1. handle' = off /\ FALSE \in {TRUE, FALSE}
            BY <1>4, <2>2
        <3> QED BY <1>2, <1>3, <2>2, <3>1, FlaggedIs
    <2> QED BY <2>1, <2>2
<1>6. handle'[h].changed \/ handle'[h].names \cap Live = handle[h].names \cap Live
    BY <1>5 DEF Live
<1> QED BY <1>1, <1>2, <1>5, <1>6 DEF OwnCmd, h

LEMMA AutoAddOwn ==
    ASSUME Base, NEW c \in Clients, NEW flag \in BOOLEAN, AutoAdd(c, flag)
    PROVE  OwnCmd(c)
<1> USE TypesAre DEF Base
<1> DEFINE h == client[c].h
<1>1. /\ "register" \in Allowed /\ h # 0 /\ Known(h) /\ wire[c].kind = "none"
      /\ handle' = [handle EXCEPT ![h].auto = flag] /\ wire' = [wire EXCEPT ![c] = NoReply]
      /\ UNCHANGED <<ecf, root, suite, cache, client, saved, events>>
    BY DEF AutoAdd, HandleCmd, Idle
<1>2. h \in Handles /\ handle[h].on
    BY <1>1 DEF Known
<1> HIDE DEF h
<1>3. handle' \in [Handles -> HandleType] /\ \A g \in Handles \ {h} : handle'[g] = handle[g]
    BY <1>1, <1>2 DEF HandleType
<1>4. /\ handle'[h].on /\ handle'[h].sno = handle[h].sno /\ handle'[h].mno = handle[h].mno
      /\ handle'[h].names = handle[h].names /\ handle'[h].changed = handle[h].changed
    BY <1>1, <1>2 DEF HandleType
<1> QED BY <1>1, <1>2, <1>3, <1>4 DEF OwnCmd, h

LEMMA OwnCmdBase ==
    ASSUME Base, NEW c \in Clients, OwnCmd(c)
    PROVE  Base'
<1> USE TypesAre DEF Base
<1>1. client[c].h \in Handles
    BY DEF OwnCmd, Records
<1>2. \A g \in Handles : handle'[g].sno <= ecf.s /\ handle'[g].mno <= ecf.m
    BY <1>1 DEF OwnCmd
<1>3. events' \in 0 .. MaxEvents
    BY DEF OwnCmd, Typed, TypeOK
<1> QED BY <1>2, <1>3, NoReplyType, HandleBase DEF OwnCmd

LEMMA DropBase ==
    ASSUME Base, NEW c \in Clients, Drop(c)
    PROVE  Base'
<1> USE TypesAre DEF Base
<1> DEFINE r == [kind |-> "handle", h |-> 0]
<1>1. /\ handle' = [handle EXCEPT ![client[c].h] = NoHandle] /\ wire' = [wire EXCEPT ![c] = r]
      /\ UNCHANGED <<ecf, root, suite, cache, client, saved>>
    BY DEF Drop, HandleCmd
<1>2. events' \in 0 .. MaxEvents
    BY EventIs DEF Drop, Typed
<1>3. handle' \in [Handles -> HandleType] /\ \A g \in Handles : handle'[g].sno <= ecf.s /\ handle'[g].mno <= ecf.m
    <2>1. handle' \in [Handles -> HandleType]
        BY <1>1, NoHandleType
    <2>2. \A g \in Handles : handle'[g] = handle[g] \/ handle'[g] = NoHandle
        BY <1>1
    <2>3. NoHandle.sno <= ecf.s /\ NoHandle.mno <= ecf.m
        BY NoHandleType
    <2> QED BY <2>1, <2>2, <2>3
<1>4. r \in Replies /\ r.kind # "delta"
    BY DEF Replies
<1> HIDE DEF r
<1> QED BY <1>1, <1>2, <1>3, <1>4, HandleBase

LEMMA DropUserBase ==
    ASSUME Base, NEW c \in Clients, NEW u, DropUser(c, u)
    PROVE  Base'
<1> USE TypesAre DEF Base
<1> DEFINE r == IF u = UserOf[c] THEN [kind |-> "handle", h |-> 0] ELSE NoReply
<1>1. /\ handle' = [h \in Handles |-> IF handle[h].user = u THEN NoHandle ELSE handle[h]]
      /\ wire' = [wire EXCEPT ![c] = r] /\ UNCHANGED <<ecf, root, suite, cache, client, saved>>
    BY DEF DropUser, HandleCmd
<1>2. events' \in 0 .. MaxEvents
    BY EventIs DEF DropUser, Typed
<1>3. handle' \in [Handles -> HandleType] /\ \A g \in Handles : handle'[g].sno <= ecf.s /\ handle'[g].mno <= ecf.m
    BY <1>1, NoHandleType
<1>4. r \in Replies /\ r.kind # "delta"
    BY NoReplyType DEF Replies
<1> HIDE DEF r
<1> QED BY <1>1, <1>2, <1>3, <1>4, HandleBase

LEMMA CheckPointBase ==
    ASSUME Base, CheckPoint
    PROVE  Base'
<1> USE DEF Base
<1>1. saved' = Now /\ UNCHANGED <<ecf, root, suite, handle, cache, client, wire, events>>
    BY DEF CheckPoint
<1>2. Typed'
    BY <1>1, NowType DEF Typed, TypeOK, Numbers
<1>3. Blank' /\ Pending'
    BY <1>1 DEF Blank, Pending
<1>4. Fresh'
    BY <1>1 DEF Fresh, NoClock, Now, Live
<1> QED BY <1>2, <1>3, <1>4

LEMMA StutterBase ==
    ASSUME Base, UNCHANGED vars
    PROVE  Base'
<1>1. UNCHANGED <<ecf, root, suite, handle, cache, saved, client, wire, events>>
    BY DEF vars
<1>2. client' \in [Clients -> Records] /\ wire' \in [Clients -> Replies] /\ events' \in 0 .. MaxEvents
    BY <1>1, TypesAre DEF Base, Typed, TypeOK
<1>3. Pending'
    BY <1>1 DEF Base, Pending
<1> QED BY <1>1, <1>2, <1>3, QuietBase

\* The steps of the server that go through the numbering.
ServerNumbered ==
    \/ \E n \in Suites, v, rv \in Vals :
          ChangeItem(n, v, rv) \/ Restructure(n, v, rv) \/ AddSuite(n, v, rv)
    \/ \E n \in Suites, rv \in Vals : DeleteSuite(n, rv)
    \/ \E n \in Suites, v \in Vals : Tick(n, v)
    \/ \E v \in Vals : ChangeRoot(v)

LEMMA ServerIsNumbered ==
    ASSUME Base, ServerNumbered
    PROVE  NumberedStep /\ events' \in 0 .. MaxEvents
<1> USE DEF Base
<1>1. ASSUME NEW n \in Suites, NEW v \in Vals, NEW rv \in Vals, ChangeItem(n, v, rv)
      PROVE  NumberedStep /\ UNCHANGED events
    BY <1>1, ChangeItemNumbered DEF ChangeItem
<1>2. ASSUME NEW n \in Suites, NEW v \in Vals, NEW rv \in Vals, Restructure(n, v, rv)
      PROVE  NumberedStep /\ UNCHANGED events
    BY <1>2, RestructureNumbered DEF Restructure
<1>3. ASSUME NEW n \in Suites, NEW v \in Vals, NEW rv \in Vals, AddSuite(n, v, rv)
      PROVE  NumberedStep /\ UNCHANGED events
    BY <1>3, AddSuiteNumbered DEF AddSuite
<1>4. ASSUME NEW n \in Suites, NEW rv \in Vals, DeleteSuite(n, rv)
      PROVE  NumberedStep /\ UNCHANGED events
    BY <1>4, DeleteSuiteNumbered DEF DeleteSuite
<1>5. ASSUME NEW n \in Suites, NEW v \in Vals, Tick(n, v)
      PROVE  NumberedStep /\ events' \in 0 .. MaxEvents
    BY <1>5, TickNumbered, EventIs DEF Tick, Typed
<1>6. ASSUME NEW v \in Vals, ChangeRoot(v)
      PROVE  NumberedStep /\ UNCHANGED events
    BY <1>6, ChangeRootNumbered DEF ChangeRoot
<1>7. events \in 0 .. MaxEvents
    BY DEF Typed, TypeOK
<1> QED BY <1>1, <1>2, <1>3, <1>4, <1>5, <1>6, <1>7 DEF ServerNumbered

LEMMA BaseStep == Base /\ [Next]_vars => Base'
<1> SUFFICES ASSUME Base, [Next]_vars PROVE Base'
    OBVIOUS
<1>1. CASE ServerNumbered
    BY <1>1, ServerIsNumbered, NumberedBase
<1>2. CASE \E n, q \in Suites, v \in Vals : QueueByPath(n, q, v)
    BY <1>2, QueueByPathBase
<1>3. CASE Clear \/ CheckPoint \/ Restart
    BY <1>3, ClearBase, CheckPointBase, RestartBase
<1>4. CASE \E c \in Clients : ClientStep(c)
    <2> PICK c \in Clients : ClientStep(c)
        BY <1>4
    <2>1. CASE \E clock \in BOOLEAN : Sync(c, clock)
        BY <2>1, SyncBase
    <2>2. CASE DeliverSync(c) \/ DeliverHandle(c) \/ Lose(c) \/ Reset(c)
        BY <2>2, DeliverSyncBase, DeliverHandleBase, LoseBase, ResetBase
    <2>3. CASE \E old \in {0, client[c].h}, names \in SUBSET Suites, auto \in BOOLEAN :
                  Register(c, old, names, auto)
        BY <2>3, RegisterBase
    <2>4. CASE Drop(c) \/ \E d \in Clients : DropUser(c, UserOf[d])
        BY <2>4, DropBase, DropUserBase
    <2>5. CASE \E n \in Suites : AddToHandle(c, n) \/ RemoveFromHandle(c, n)
        BY <2>5, AddToHandleOwn, RemoveFromHandleOwn, OwnCmdBase
    <2>6. CASE \E flag \in BOOLEAN : AutoAdd(c, flag)
        BY <2>6, AutoAddOwn, OwnCmdBase
    <2> QED BY <2>1, <2>2, <2>3, <2>4, <2>5, <2>6 DEF ClientStep
<1>5. CASE UNCHANGED vars
    BY <1>5, StutterBase
<1> QED BY <1>1, <1>2, <1>3, <1>4, <1>5 DEF Next, ServerStep, ServerNumbered

\* Every reachable state of server, clients and wire is well typed, whatever
\* steps are allowed: Ecf, Suite, ClientSuites, DefsCache and the replies.
THEOREM TypeCorrect == Spec => []TypeOK
<1>1. Spec => []Base
    BY InitBase, BaseStep, PTL DEF Spec
<1>2. Base => TypeOK
    BY DEF Base, Typed
<1> QED BY <1>1, <1>2, PTL

-----------------------------------------------------------------------------
(* The full definition *)

\* What is outside the live suites is blank.
LEMMA LimitedLive ==
    ASSUME Base
    PROVE  NoClock(Limited(Now, Live)) = NoClock(Now)
<1> USE TypesAre DEF Base
<1> DEFINE a == [n \in Suites |-> IF n \in Live THEN Now.item[n] ELSE 0]
           b == [n \in Suites |-> suite[n].v]
<1>1. Now.root = root.v /\ Now.on = Live /\ Now.item = b
    BY DEF Now
<1>2. \A n \in Suites : n \notin Live => b[n] = 0
    BY NoSuiteType DEF Live, Blank
<1>3. a = b
    BY <1>1, <1>2
<1>4. NoClock(Limited(Now, Live)) = [root |-> Now.root, on |-> Now.on \cap Live, item |-> a]
    BY DEF NoClock, Limited
<1>5. NoClock(Now) = [root |-> Now.root, on |-> Now.on, item |-> Now.item]
    BY DEF NoClock
<1> HIDE DEF a, b
<1> QED BY <1>1, <1>3, <1>4, <1>5

LEMMA FullIsView ==
    ASSUME Base, NEW h \in Handles \cup {0}
    PROVE  NoClock(FullReply(h).defs) = View(h)
<1>1. CASE UsesCache(h)
    <2>1. Scope(h) = Live
        BY <1>1 DEF UsesCache, AllRegistered, Scope
    <2>2. FullReply(h).defs = Cached.defs
        BY <1>1, FullReplyIs DEF Base
    <2> QED BY <2>1, <2>2, CachedFresh, LimitedLive DEF View
<1>2. CASE ~UsesCache(h)
    BY <1>2, FullReplyIs DEF Base, View
<1> QED BY <1>1, <1>2

\* A full reply carries the server's definition of the moment, limited to the
\* suites of the handle, through the cache or past it: DefsCache, keyed by the
\* two change numbers, is never behind, whatever steps are allowed, restarts
\* among them.
THEOREM FullAlwaysFresh == Spec => []FullIsFresh
<1>1. Spec => []Base
    BY InitBase, BaseStep, PTL DEF Spec
<1>2. Base => FullIsFresh
    <2> SUFFICES ASSUME Base, NEW c \in Clients
                 PROVE  NoClock(FullReply(client[c].h).defs) = View(client[c].h)
        BY DEF FullIsFresh
    <2>1. client[c].h \in Handles \cup {0}
        BY TypesAre DEF Base, Records
    <2> QED BY <2>1, FullIsView
<1> QED BY <1>1, <1>2, PTL

-----------------------------------------------------------------------------
(* The copies of the clients *)

\* Where the protocol keeps its promise: without the steps that lose a change
\* number (the queue child command with a path, a restart of the server) or a
\* handle under a client that goes on using it (drop, drop by user, a second
\* registration by a client that has a copy, the loss of a reply to a client
\* with a handle, the deletion of all suites).
Undisturbed ==
    /\ Allowed \cap {"queue_path", "restart", "drop", "drop_user", "reregister", "lost_handle"} = {}
    /\ "clear" \in Allowed => "register" \notin Allowed

\* Copy cl has the suites of S, and every item of it that differs from the
\* server's will be in a delta.
Covers(cl, S) ==
    /\ cl.defs.on = S
    /\ root.v = cl.defs.root \/ root.no > cl.s
    /\ \A n \in Suites \ S : cl.defs.item[n] = 0
    /\ \A n \in S : suite[n].v = cl.defs.item[n] \/ (suite[n].no > cl.s /\ suite[n].sno > cl.s)

\* The handle has a structural change after number k.
Newer(h, k) == handle[h].mno > k \/ \E n \in Scope(h) : suite[n].mno > k

\* The next sync of the copy cl brings all that it lacks: by a full definition
\* or by a delta.
UpToDate(cl) ==
    cl.defs # None =>
        /\ cl.s <= ecf.s /\ cl.m <= ecf.m
        /\ cl.h = 0 => (cl.m = ecf.m => Covers(cl, Live))
        /\ cl.h # 0 => /\ handle[cl.h].on
                       /\ \/ handle[cl.h].changed
                          \/ Newer(cl.h, cl.m)
                          \/ Covers(cl, Scope(cl.h))

\* What client c will hold once the reply on its way has arrived, and what it
\* holds if the reply can be lost.
Held(c) == IF wire[c].kind \in {"full", "delta"} THEN Applied(client[c], wire[c], Suites) ELSE client[c]
Copies(c) == {Held(c)} \cup {cl \in {client[c]} : cl.h = 0}

\* The handle client c will use.
Owned(c) == IF wire[c].kind = "handle" THEN wire[c].h ELSE client[c].h

Sound(c) ==
    /\ \A cl \in Copies(c) : UpToDate(cl)
    /\ wire[c].kind = "delta" => ~Misfit(client[c].defs, wire[c])
    /\ wire[c].kind = "handle" => client[c].defs = None
    /\ Owned(c) # 0 => handle[Owned(c)].on /\ "register" \in Allowed

\* No two clients use the same handle.
Apart == \A c, d \in Clients : c # d /\ Owned(c) = Owned(d) => Owned(c) = 0

InSync == (\A c \in Clients : Sound(c)) /\ Apart

LEMMA HeldIs ==
    ASSUME Base, NEW c \in Clients
    PROVE  /\ Held(c) \in Records /\ Copies(c) \subseteq Records
           /\ Owned(c) \in Handles \cup {0}
           /\ \A cl \in Copies(c) : cl.h = client[c].h
<1>1. client[c] \in Records /\ wire[c] \in Replies
    BY TypesAre DEF Base
<1>2. wire[c].kind = "delta" => client[c].defs # None
    BY DEF Base, Pending
<1>3. Held(c) \in Records /\ Held(c).h = client[c].h
    BY <1>1, <1>2, AppliedIs DEF Held
<1>4. Owned(c) \in Handles \cup {0}
    BY <1>1, ReplyCases DEF Owned, Records
<1> QED BY <1>1, <1>3, <1>4 DEF Copies

LEMMA CopyHandle ==
    ASSUME Base, NEW c \in Clients, Sound(c), NEW cl \in Copies(c), cl.defs # None
    PROVE  cl.h \in {0, Owned(c)}
<1>1. CASE wire[c].kind = "handle"
    BY <1>1 DEF Sound, Copies, Held
<1>2. CASE wire[c].kind # "handle"
    BY <1>2, HeldIs DEF Owned
<1> QED BY <1>1, <1>2

\* A numbered change of suites that stay leaves a copy covered.
LEMMA CoversKept ==
    ASSUME Base, NumberedStep, NEW cl \in Records, cl.s <= ecf.s, NEW S \in SUBSET Suites,
           \A n \in S : Kept(n) \/ Touched(n), Covers(cl, S)
    PROVE  Covers(cl, S)'
<1> USE TypesAre DEF Base
<1>1. cl.s \in Nat /\ ecf.s \in Nat
    BY DEF Records
<1>2. root'.v = cl.defs.root \/ root'.no > cl.s
    <2>1. root' = root \/ root'.no > ecf.s
        BY DEF NumberedStep
    <2>2. root' \in [v : Vals, no : Nat]
        BY DEF NumberedStep
    <2> QED BY <1>1, <2>1, <2>2 DEF Covers
<1>3. ASSUME NEW n \in S
      PROVE  suite'[n].v = cl.defs.item[n] \/ (suite'[n].no > cl.s /\ suite'[n].sno > cl.s)
    <2>1. CASE Kept(n)
        BY <1>3, <2>1 DEF Kept, Covers
    <2>2. CASE Touched(n)
        <3>1. suite'[n].no \in Nat /\ suite'[n].sno \in Nat
            BY DEF NumberedStep, SuiteType
        <3> QED BY <1>1, <2>2, <3>1 DEF Touched
    <2> QED BY <1>3, <2>1, <2>2
<1>4. cl.defs.on = S /\ \A n \in Suites \ S : cl.defs.item[n] = 0
    BY DEF Covers
<1> QED BY <1>2, <1>3, <1>4 DEF Covers

LEMMA NumberedKeeps ==
    ASSUME Base, NumberedStep, NEW cl \in Records, UpToDate(cl)
    PROVE  UpToDate(cl)'
<1> USE TypesAre DEF Base
<1> SUFFICES ASSUME cl.defs # None
             PROVE  /\ cl.s <= ecf'.s /\ cl.m <= ecf'.m
                    /\ cl.h = 0 => (cl.m = ecf'.m => Covers(cl, Live)')
                    /\ cl.h # 0 => /\ handle'[cl.h].on
                                   /\ handle'[cl.h].changed \/ Newer(cl.h, cl.m)' \/ Covers(cl, Scope(cl.h))'
    BY DEF UpToDate
<1>1. /\ cl.s \in Nat /\ cl.m \in Nat /\ cl.h \in Handles \cup {0} /\ cl.s <= ecf.s /\ cl.m <= ecf.m
      /\ ecf'.s >= ecf.s /\ ecf'.m >= ecf.m /\ ecf' \in [s : Nat, m : Nat]
    BY DEF Records, UpToDate, NumberedStep
<1>2. cl.s <= ecf'.s /\ cl.m <= ecf'.m
    BY <1>1
<1>3. ASSUME cl.h = 0, cl.m = ecf'.m
      PROVE  Covers(cl, Live)'
    <2>1. ecf'.m = ecf.m /\ cl.m = ecf.m
        BY <1>1, <1>3
    <2>2. PICK L \in SUBSET Suites : L = Live
        BY LiveType
    <2>3. \A n \in Suites : Kept(n) \/ Touched(n)
        BY <1>1, <2>1 DEF NumberedStep, Toggled
    <2>4. Live' = L
        BY <2>2, <2>3 DEF Live, Kept, Touched
    <2>5. Covers(cl, L)'
        BY <1>1, <1>3, <2>1, <2>2, <2>3, CoversKept DEF UpToDate
    <2> QED BY <2>4, <2>5 DEF Covers
<1>4. ASSUME cl.h # 0
      PROVE  /\ handle'[cl.h].on
             /\ handle'[cl.h].changed \/ Newer(cl.h, cl.m)' \/ Covers(cl, Scope(cl.h))'
    <2> DEFINE h == cl.h
    <2>1. h \in Handles /\ handle[h].on /\ handle'[h].on
        BY <1>1, <1>4 DEF UpToDate, NumberedStep
    <2> SUFFICES ASSUME ~handle'[h].changed
                 PROVE  Newer(h, cl.m)' \/ Covers(cl, Scope(h))'
        BY <2>1
    <2>2. handle'[h] = handle[h]
        BY <2>1 DEF NumberedStep
    <2>3. \A n \in Suites : n \in handle[h].names => Kept(n) \/ Touched(n)
        BY <2>1, <2>2 DEF NumberedStep, Toggled
    <2>4. PICK L \in SUBSET Suites : L = Scope(h)
        BY <2>1, ScopeType, LiveType DEF Typed
    <2>5. \A n \in L : Kept(n) \/ Touched(n)
        BY <1>4, <2>3, <2>4 DEF Scope
    <2>6. Scope(h)' = L
        BY <1>4, <2>2, <2>3, <2>4 DEF Scope, Live, Kept, Touched
    <2>7. CASE Newer(h, cl.m)
        <3>1. CASE handle[h].mno > cl.m
            BY <2>2, <3>1 DEF Newer
        <3>2. CASE \E n \in Scope(h) : suite[n].mno > cl.m
            <4>1. PICK n \in L : suite[n].mno > cl.m
                BY <2>4, <3>2
            <4>2. suite'[n].mno >= suite[n].mno /\ suite'[n].mno \in Nat /\ suite[n].mno \in Nat
                <5>1. suite'[n].mno \in Nat /\ suite[n].mno \in Nat
                    BY DEF NumberedStep, SuiteType
                <5> QED BY <2>5, <5>1 DEF Kept, Touched
            <4>3. suite'[n].mno > cl.m
                BY <1>1, <4>1, <4>2
            <4> QED BY <2>6, <4>3 DEF Newer
        <3> QED BY <2>7, <3>1, <3>2 DEF Newer
    <2>8. CASE Covers(cl, Scope(h))
        <3>1. Covers(cl, L)'
            BY <1>1, <2>4, <2>5, <2>8, CoversKept
        <3> QED BY <2>6, <3>1 DEF Covers
    <2>9. Newer(h, cl.m) \/ Covers(cl, Scope(h))
        BY <1>4, <2>2 DEF UpToDate
    <2> QED BY <2>7, <2>8, <2>9
<1> QED BY <1>2, <1>3, <1>4

\* A command on handles leaves a copy up to date when the copy's handle stays,
\* keeps its flag and sets it if it has other suites.
LEMMA HandleKeeps ==
    ASSUME Base, UNCHANGED <<ecf, root, suite>>, NEW cl \in Records, UpToDate(cl),
           \/ cl.h = 0
           \/ /\ handle'[cl.h].on /\ handle'[cl.h].mno = handle[cl.h].mno
              /\ handle[cl.h].changed => handle'[cl.h].changed
              /\ \/ handle'[cl.h].changed
                 \/ handle'[cl.h].names \cap Live = handle[cl.h].names \cap Live
    PROVE  UpToDate(cl)'
<1> SUFFICES ASSUME cl.defs # None
             PROVE  /\ cl.s <= ecf'.s /\ cl.m <= ecf'.m
                    /\ cl.h = 0 => (cl.m = ecf'.m => Covers(cl, Live)')
                    /\ cl.h # 0 => /\ handle'[cl.h].on
                                   /\ handle'[cl.h].changed \/ Newer(cl.h, cl.m)' \/ Covers(cl, Scope(cl.h))'
    BY DEF UpToDate
<1>1. Live' = Live /\ cl.s <= ecf'.s /\ cl.m <= ecf'.m
    BY DEF Live, UpToDate
<1>2. ASSUME cl.h = 0, cl.m = ecf'.m
      PROVE  Covers(cl, Live)'
    <2>1. Covers(cl, Live)
        BY <1>2 DEF UpToDate
    <2> QED BY <1>1, <2>1 DEF Covers
<1>3. ASSUME cl.h # 0
      PROVE  /\ handle'[cl.h].on
             /\ handle'[cl.h].changed \/ Newer(cl.h, cl.m)' \/ Covers(cl, Scope(cl.h))'
    <2> DEFINE h == cl.h
    <2> SUFFICES ASSUME ~handle'[h].changed
                 PROVE  Newer(h, cl.m)' \/ Covers(cl, Scope(h))'
        BY <1>3
    <2>1. Scope(h)' = Scope(h)
        BY <1>1, <1>3 DEF Scope
    <2>2. CASE Newer(h, cl.m)
        BY <1>3, <2>1, <2>2 DEF Newer
    <2>3. CASE Covers(cl, Scope(h))
        BY <2>1, <2>3 DEF Covers
    <2>4. Newer(h, cl.m) \/ Covers(cl, Scope(h))
        BY <1>3 DEF UpToDate
    <2> QED BY <2>2, <2>3, <2>4
<1> QED BY <1>1, <1>2, <1>3

\* The other clients during a step of client c that spares their handles.
LEMMA OthersKeep ==
    ASSUME Base, InSync, NEW c \in Clients, UNCHANGED <<ecf, root, suite>>,
           NEW d \in Clients \ {c}, client'[d] = client[d], wire'[d] = wire[d],
           Owned(d) # 0 => handle'[Owned(d)] = handle[Owned(d)]
    PROVE  Sound(d)' /\ Owned(d)' = Owned(d)
<1>1. Sound(d)
    BY DEF InSync
<1>2. Copies(d)' = Copies(d) /\ Owned(d)' = Owned(d)
    BY DEF Copies, Held, Owned
<1>3. \A cl \in Copies(d)' : UpToDate(cl)'
    <2> TAKE cl \in Copies(d)'
    <2>1. cl \in Records /\ cl \in Copies(d) /\ UpToDate(cl)
        BY <1>1, <1>2, HeldIs DEF Sound
    <2>2. CASE cl.defs = None
        BY <2>2 DEF UpToDate
    <2>3. CASE cl.defs # None
        <3>1. cl.h = 0 \/ (cl.h # 0 /\ cl.h = Owned(d))
            BY <1>1, <2>1, <2>3, CopyHandle
        <3>2. cl.h # 0 => handle[cl.h].on
            BY <2>1, <2>3 DEF UpToDate
        <3> QED BY <2>1, <3>1, <3>2, HandleKeeps
    <2> QED BY <2>2, <2>3
<1>4. Owned(d)' # 0 => handle'[Owned(d)'].on /\ "register" \in Allowed
    BY <1>1, <1>2 DEF Sound
<1>5. /\ wire'[d].kind = "delta" => ~Misfit(client'[d].defs, wire'[d])
      /\ wire'[d].kind = "handle" => client'[d].defs = None
    BY <1>1 DEF Sound
<1> QED BY <1>2, <1>3, <1>4, <1>5 DEF Sound, Misfit

\* A copy that is the server's definition is covered.
LEMMA ExactCovers ==
    ASSUME Base, NEW d \in Defs, NEW h \in Handles \cup {0}, NoClock(d) = View(h)
    PROVE  /\ d.on = Scope(h) /\ root.v = d.root
           /\ \A n \in Suites \ Scope(h) : d.item[n] = 0
           /\ \A n \in Scope(h) : suite[n].v = d.item[n]
<1> DEFINE S == Scope(h)
<1>1. S \subseteq Live /\ Live \subseteq Suites
    BY ScopeType, LiveType DEF Base, Typed
<1>2. NoClock(d) = [root |-> d.root, on |-> d.on, item |-> d.item]
    BY DEF NoClock
<1> DEFINE want == [n \in Suites |-> IF n \in S THEN suite[n].v ELSE 0]
<1>3. View(h) = [root |-> root.v, on |-> Live \cap S, item |-> want]
    BY <1>1 DEF View, NoClock, Limited, Now
<1>4. d.root = root.v /\ d.on = Live \cap S /\ d.item = want
    <2> HIDE DEF want, S
    <2>1. [root |-> d.root, on |-> d.on, item |-> d.item] = [root |-> root.v, on |-> Live \cap S, item |-> want]
        BY <1>2, <1>3
    <2> QED BY <2>1
<1> HIDE DEF S
<1>5. d.on = S /\ (\A n \in Suites \ S : d.item[n] = 0) /\ (\A n \in S : suite[n].v = d.item[n])
    BY <1>1, <1>4
<1> QED BY <1>4, <1>5 DEF S

\* When a delta is sent, the copy is covered.
LEMMA DeltaCovers ==
    ASSUME Base, NEW c \in Clients, UpToDate(client[c]), Known(client[c].h), ~SendsFull(c)
    PROVE  client[c].defs \in Defs /\ Covers(client[c], Scope(client[c].h))
<1> DEFINE cl == client[c]  h == cl.h
<1>1. cl \in Records /\ cl.defs # None /\ cl.s \in Nat /\ cl.m \in Nat /\ h \in Handles \cup {0}
    BY TypesAre DEF Base, Records, SendsFull
<1>2. ServerNo(h).m \in Nat /\ ServerNo(h).s \in Nat
    BY <1>1, ServerNoIs DEF Base
<1>3. cl.m = ServerNo(h).m /\ (h # 0 => ~handle[h].changed)
    BY <1>1, <1>2 DEF SendsFull
<1>4. cl.defs \in Defs
    BY <1>1 DEF Records
<1>5. CASE h = 0
    <2>1. Scope(h) = Live /\ cl.m = ecf.m
        BY <1>3, <1>5 DEF Scope, ServerNo
    <2> QED BY <1>1, <1>4, <1>5, <2>1 DEF UpToDate
<1>6. CASE h # 0
    <2>1. ~Newer(h, cl.m)
        <3>1. /\ handle[h].mno <= cl.m /\ \A n \in Scope(h) : suite[n].mno <= cl.m
            BY <1>1, <1>3, <1>6, HandleMaxIs DEF ServerNo, Base
        <3>2. handle[h].mno \in Nat /\ \A n \in Scope(h) : suite[n].mno \in Nat
            <4>1. Scope(h) \subseteq Suites
                BY <1>1, ScopeType, LiveType DEF Base, Typed
            <4> QED BY <1>1, <1>6, <4>1, TypesAre DEF Base, HandleType, SuiteType
        <3> QED BY <1>1, <3>1, <3>2 DEF Newer
    <2> QED BY <1>1, <1>3, <1>4, <1>6, <2>1 DEF UpToDate
<1> QED BY <1>5, <1>6

\* The delta brings a covered copy to the server's definition.
LEMMA DeltaIsView ==
    ASSUME Base, NEW c \in Clients, NEW clock \in BOOLEAN, client[c].defs \in Defs,
           Covers(client[c], Scope(client[c].h))
    PROVE  /\ ~Misfit(client[c].defs, DeltaReply(c, clock))
           /\ NoClock(Merged(client[c].defs, DeltaReply(c, clock), Suites)) = View(client[c].h)
<1> DEFINE cl == client[c]  d == cl.defs  S == Scope(cl.h)  r == DeltaReply(c, clock)
           I == ChangedItems(c)  C == ChangedCals(c, clock)
<1>1. cl \in Records /\ cl.s \in Nat /\ cl.h \in Handles \cup {0}
    BY TypesAre DEF Base, Records
<1>2. S \subseteq Live /\ Live \subseteq Suites
    BY <1>1, ScopeType, LiveType DEF Base, Typed
<1>3. I \subseteq S /\ C \subseteq S
    BY DEF ChangedItems, ChangedCals
<1>4. /\ r.items = I /\ r.cals = C /\ (r.root <=> root.no > cl.s) /\ r.now = Limited(Now, I \cup C)
    BY DEF DeltaReply
<1>5. d.on = S /\ (root.v = d.root \/ root.no > cl.s) /\ (\A n \in Suites \ S : d.item[n] = 0)
      /\ \A n \in S : suite[n].v = d.item[n] \/ n \in I
    BY DEF Covers, ChangedItems
<1>6. r.now.root = root.v /\ \A n \in I : r.now.item[n] = suite[n].v
    <2>1. I \subseteq Suites
        BY <1>2, <1>3
    <2> QED BY <1>4, <2>1 DEF Limited, Now
<1>7. ~Misfit(d, r)
    BY <1>3, <1>4, <1>5 DEF Misfit
<1> DEFINE item == [n \in Suites |-> IF n \in r.items \cap Suites THEN r.now.item[n] ELSE d.item[n]]
           want == [n \in Suites |-> IF n \in S THEN suite[n].v ELSE 0]
<1>8. item = want
    <2> SUFFICES ASSUME NEW n \in Suites PROVE item[n] = want[n]
        OBVIOUS
    <2>1. CASE n \in I
        BY <1>3, <1>4, <1>6, <2>1
    <2>2. CASE n \notin I /\ n \in S
        BY <1>4, <1>5, <2>2
    <2>3. CASE n \notin S
        BY <1>3, <1>4, <1>5, <2>3
    <2> QED BY <2>1, <2>2, <2>3
<1>9. NoClock(Merged(d, r, Suites)) = [root |-> IF r.root THEN r.now.root ELSE d.root,
                                       on |-> d.on, item |-> item]
    BY DEF NoClock, Merged
<1>10. View(cl.h) = [root |-> root.v, on |-> Live \cap S, item |-> want]
    BY <1>2 DEF View, NoClock, Limited, Now
<1>11. (IF r.root THEN r.now.root ELSE d.root) = root.v
    BY <1>4, <1>5, <1>6
<1>12. d.on = Live \cap S
    BY <1>2, <1>5
<1> HIDE DEF r, d, S, item, want, cl
<1>13. NoClock(Merged(d, r, Suites)) = View(cl.h)
    BY <1>8, <1>9, <1>10, <1>11, <1>12
<1> QED BY <1>7, <1>13 DEF r, d, cl

\* A sync of a client whose copy is up to date: the reply fits the copy and
\* leaves the client with the server's definition.
LEMMA SyncExact ==
    ASSUME Base, NEW c \in Clients, NEW clock \in BOOLEAN, UpToDate(client[c]), Known(client[c].h)
    PROVE  LET r == SyncReply(c, clock) IN
           /\ r \in Replies /\ r.kind \in {"full", "delta"}
           /\ r.kind = "delta" => client[c].defs # None /\ ~Misfit(client[c].defs, r)
           /\ r.s <= ecf.s /\ r.m <= ecf.m
           /\ NoClock(Applied(client[c], r, Suites).defs) = View(client[c].h)
<1> DEFINE r == SyncReply(c, clock)  h == client[c].h
<1>1. client[c] \in Records /\ h \in Handles \cup {0} /\ r \in Replies
    BY TypesAre, SyncReplyIs DEF Base, Records
<1>2. CASE SendsFull(c)
    <2>1. r = FullReply(h)
        BY <1>2 DEF SyncReply
    <2>2. r.kind = "full" /\ r.s <= ecf.s /\ r.m <= ecf.m
        BY <1>1, <2>1, FullReplyIs DEF Base
    <2>3. Applied(client[c], r, Suites).defs = r.defs
        BY <1>1, <2>2, AppliedIs
    <2>4. NoClock(r.defs) = View(h)
        BY <1>1, <2>1, FullIsView
    <2> QED BY <1>1, <2>2, <2>3, <2>4
<1>3. CASE ~SendsFull(c)
    <2>1. r = DeltaReply(c, clock)
        BY <1>3 DEF SyncReply
    <2>2. r.kind = "delta" /\ r.s <= ecf.s /\ r.m <= ecf.m
        BY <2>1, DeltaReplyIs DEF Base
    <2>3. client[c].defs \in Defs /\ client[c].defs # None /\ Covers(client[c], Scope(h))
        BY <1>3, DeltaCovers DEF SendsFull
    <2>4. ~Misfit(client[c].defs, r) /\ NoClock(Merged(client[c].defs, r, Suites)) = View(h)
        BY <2>1, <2>3, DeltaIsView
    <2>5. Applied(client[c], r, Suites).defs = Merged(client[c].defs, r, Suites)
        BY <1>1, <2>2, <2>3, AppliedIs
    <2> QED BY <1>1, <2>2, <2>3, <2>4, <2>5
<1> QED BY <1>2, <1>3

-----------------------------------------------------------------------------
(* The copies stay in sync *)

LEMMA NumberedInSync ==
    ASSUME Base, InSync, NumberedStep
    PROVE  InSync'
<1>1. client' = client /\ wire' = wire /\ \A h \in Handles : handle'[h].on = handle[h].on
    BY DEF NumberedStep
<1>2. \A c \in Clients : Copies(c)' = Copies(c) /\ Owned(c)' = Owned(c)
    BY <1>1 DEF Copies, Held, Owned
<1>3. ASSUME NEW c \in Clients
      PROVE  Sound(c)'
    <2>1. Sound(c)
        BY DEF InSync
    <2>2. \A cl \in Copies(c)' : UpToDate(cl)'
        BY <1>2, <2>1, HeldIs, NumberedKeeps DEF Sound
    <2>3. Owned(c)' # 0 => handle'[Owned(c)'].on /\ "register" \in Allowed
        BY <1>1, <1>2, <2>1, HeldIs DEF Sound
    <2>4. /\ wire'[c].kind = "delta" => ~Misfit(client'[c].defs, wire'[c])
          /\ wire'[c].kind = "handle" => client'[c].defs = None
        BY <1>1, <2>1 DEF Sound
    <2> QED BY <1>2, <2>2, <2>3, <2>4 DEF Sound, Misfit
<1>4. Apart'
    BY <1>2 DEF InSync, Apart
<1> QED BY <1>3, <1>4 DEF InSync

LEMMA ClearInSync ==
    ASSUME Base, InSync, Undisturbed, Clear
    PROVE  InSync'
<1> USE TypesAre DEF Base
<1>1. /\ ecf' = IncrM(IncrS(ecf)) /\ UNCHANGED <<client, wire>> /\ "register" \notin Allowed
    BY DEF Clear, Undisturbed
<1>2. ecf'.s = ecf.s + 1 /\ ecf'.m = ecf.m + 1
    BY <1>1, IncrIs
<1>3. \A c \in Clients : Copies(c)' = Copies(c) /\ Owned(c)' = Owned(c)
    BY <1>1 DEF Copies, Held, Owned
<1>4. ASSUME NEW c \in Clients
      PROVE  Sound(c)'
    <2>1. Sound(c) /\ Owned(c) = 0
        BY <1>1 DEF InSync, Sound
    <2>2. \A cl \in Copies(c)' : UpToDate(cl)'
        <3> TAKE cl \in Copies(c)'
        <3>1. cl \in Copies(c) /\ cl \in Records /\ UpToDate(cl)
            BY <1>3, <2>1, HeldIs DEF Sound
        <3>2. cl.defs # None => cl.h = 0
            BY <2>1, <3>1, CopyHandle
        <3>3. cl.s \in Nat /\ cl.m \in Nat
            BY <3>1 DEF Records
        <3>4. cl.defs # None => cl.s <= ecf.s /\ cl.m <= ecf.m
            BY <3>1 DEF UpToDate
        <3>5. cl.defs # None => cl.s <= ecf'.s /\ cl.m <= ecf'.m /\ cl.m # ecf'.m
            BY <1>2, <3>3, <3>4
        <3> QED BY <3>2, <3>5 DEF UpToDate
    <2>3. /\ wire'[c].kind = "delta" => ~Misfit(client'[c].defs, wire'[c])
          /\ wire'[c].kind = "handle" => client'[c].defs = None
        BY <1>1, <2>1 DEF Sound
    <2> QED BY <1>3, <2>1, <2>2, <2>3 DEF Sound, Misfit
<1>5. Apart'
    BY <1>3 DEF InSync, Apart
<1> QED BY <1>4, <1>5 DEF InSync

\* A step of client c that spares the handles of the others.
LEMMA ClientInSync ==
    ASSUME Base, InSync, NEW c \in Clients, UNCHANGED <<ecf, root, suite>>,
           \A d \in Clients \ {c} : client'[d] = client[d] /\ wire'[d] = wire[d],
           \A d \in Clients \ {c} : Owned(d) # 0 => handle'[Owned(d)] = handle[Owned(d)],
           Sound(c)', \A d \in Clients \ {c} : Owned(c)' = Owned(d) => Owned(d) = 0
    PROVE  InSync'
<1>1. \A d \in Clients \ {c} : Sound(d)' /\ Owned(d)' = Owned(d)
    BY OthersKeep
<1>2. \A d \in Clients : Sound(d)'
    BY <1>1
<1>3. Apart'
    BY <1>1 DEF InSync, Apart
<1> QED BY <1>2, <1>3 DEF InSync

\* The handle of a client that has none on its way is no other client's.
LEMMA OthersSpared ==
    ASSUME Base, InSync, NEW c \in Clients, wire[c].kind # "handle",
           \A g \in Handles \ {client[c].h} : handle'[g] = handle[g]
    PROVE  \A d \in Clients \ {c} : Owned(d) # 0 => handle'[Owned(d)] = handle[Owned(d)]
<1> TAKE d \in Clients \ {c}
<1> HAVE Owned(d) # 0
<1>1. Owned(d) \in Handles /\ Owned(d) # Owned(c)
    BY HeldIs DEF InSync, Apart
<1>2. Owned(c) = client[c].h
    BY DEF Owned
<1> QED BY <1>1, <1>2

LEMMA SyncInSync ==
    ASSUME Base, InSync, NEW c \in Clients, NEW clock \in BOOLEAN, Sync(c, clock)
    PROVE  InSync'
<1> DEFINE r == SyncReply(c, clock)  h == client[c].h
<1>1. /\ wire[c].kind = "none" /\ Known(h) /\ wire' = [wire EXCEPT ![c] = r]
      /\ UNCHANGED <<ecf, root, suite, client>>
    BY DEF Sync, Idle
<1>2. client[c] \in Records /\ h \in Handles \cup {0} /\ wire \in [Clients -> Replies]
    BY TypesAre DEF Base, Records
<1>3. Sound(c) /\ UpToDate(client[c]) /\ Owned(c) = h
    BY <1>1 DEF InSync, Sound, Copies, Held, Owned
<1>4. /\ r \in Replies /\ r.kind \in {"full", "delta"}
      /\ r.kind = "delta" => client[c].defs # None /\ ~Misfit(client[c].defs, r)
      /\ r.s <= ecf.s /\ r.m <= ecf.m
      /\ NoClock(Applied(client[c], r, Suites).defs) = View(h)
    BY <1>1, <1>3, SyncExact
<1>5. /\ \A g \in Handles \ {h} : handle'[g] = handle[g]
      /\ h # 0 => handle'[h].on = handle[h].on /\ handle'[h].names = handle[h].names
    <2>1. CASE SendsFull(c)
        <3>1. AfterFull(h)
            BY <2>1 DEF Sync
        <3> QED BY <1>2, <3>1, AfterFullIs
    <2>2. CASE ~SendsFull(c)
        BY <2>2 DEF Sync
    <2> QED BY <2>1, <2>2
<1>6. PICK cl \in Records : cl = Applied(client[c], r, Suites)
    BY <1>2, <1>4, AppliedIs
<1>7. /\ cl.h = h /\ cl.s = r.s /\ cl.m = r.m /\ cl.defs \in Defs /\ NoClock(cl.defs) = View(h)
    BY <1>2, <1>4, <1>6, AppliedIs
<1> HIDE DEF r
<1>8. wire'[c] = r /\ client'[c] = client[c]
    BY <1>1, <1>2
<1>9. Owned(c)' = h /\ Copies(c)' = {cl} \cup {k \in {client[c]} : k.h = 0}
    <2>1. Held(c)' = cl
        BY <1>4, <1>6, <1>8 DEF Held, Applied, Merged
    <2> QED BY <1>4, <1>8, <2>1 DEF Owned, Copies
<1>10. UpToDate(cl)'
    <2>1. Scope(h)' = Scope(h) /\ Live' = Live
        BY <1>1, <1>5 DEF Scope, Live
    <2>2. /\ cl.defs.on = Scope(h) /\ root.v = cl.defs.root
          /\ \A n \in Suites \ Scope(h) : cl.defs.item[n] = 0
          /\ \A n \in Scope(h) : suite[n].v = cl.defs.item[n]
        BY <1>2, <1>7, ExactCovers
    <2>3. Covers(cl, Scope(cl.h))'
        BY <1>1, <1>7, <2>1, <2>2 DEF Covers
    <2>4. h = 0 => Covers(cl, Live)'
        BY <1>1, <2>1, <2>2 DEF Covers, Scope
    <2>5. h # 0 => handle'[h].on
        BY <1>1, <1>2, <1>5 DEF Known
    <2> QED BY <1>1, <1>4, <1>7, <2>3, <2>4, <2>5 DEF UpToDate
<1>11. client[c].h = 0 => \A k \in Records : k = client[c] => UpToDate(k)'
    BY <1>1, <1>3, HandleKeeps
<1>12. \A k \in Copies(c)' : UpToDate(k)'
    BY <1>2, <1>9, <1>10, <1>11
<1>13. Sound(c)'
    <2>1. Owned(c)' # 0 => handle'[Owned(c)'].on /\ "register" \in Allowed
        BY <1>1, <1>2, <1>3, <1>5, <1>9 DEF Sound, Known
    <2>2. /\ wire'[c].kind = "delta" => ~Misfit(client'[c].defs, wire'[c])
          /\ wire'[c].kind = "handle" => client'[c].defs = None
        BY <1>4, <1>8
    <2> QED BY <1>12, <2>1, <2>2 DEF Sound, Misfit
<1>14. \A d \in Clients \ {c} : Owned(d) # 0 => handle'[Owned(d)] = handle[Owned(d)]
    BY <1>1, <1>5, OthersSpared
<1>15. \A d \in Clients \ {c} : Owned(c)' = Owned(d) => Owned(d) = 0
    BY <1>3, <1>9 DEF InSync, Apart
<1>16. \A d \in Clients \ {c} : client'[d] = client[d] /\ wire'[d] = wire[d]
    BY <1>1, <1>2
<1> QED BY <1>1, <1>13, <1>14, <1>15, <1>16, ClientInSync

\* A step of client c in which the server does nothing and no other client is
\* concerned, and after which c's copies are among those it had, or empty.
LEMMA QuietInSync ==
    ASSUME Base, InSync, NEW c \in Clients, UNCHANGED <<ecf, root, suite, handle>>,
           \A d \in Clients \ {c} : client'[d] = client[d] /\ wire'[d] = wire[d],
           wire'[c].kind = "none", client'[c] \in Records,
           client'[c].defs = None \/ client'[c] \in Copies(c),
           client'[c].h \in {0, Owned(c)}
    PROVE  InSync'
<1>1. Sound(c)
    BY DEF InSync
<1>2. Owned(c)' = client'[c].h
    BY DEF Owned
<1>3. \A cl \in Copies(c)' : cl = client'[c]
    BY DEF Copies, Held
<1>4. \A cl \in Copies(c)' : UpToDate(cl)'
    <2> TAKE cl \in Copies(c)'
    <2>1. CASE client'[c].defs = None
        BY <1>3, <2>1 DEF UpToDate
    <2>2. CASE client'[c].defs # None
        <3>1. cl \in Records /\ UpToDate(cl) /\ cl.defs # None
            BY <1>1, <1>3, <2>2 DEF Sound
        <3>2. cl.h # 0 => handle[cl.h].on
            BY <3>1 DEF UpToDate
        <3> QED BY <3>1, <3>2, HandleKeeps
    <2> QED BY <2>1, <2>2
<1>5. Sound(c)'
    <2>1. Owned(c)' # 0 => handle'[Owned(c)'].on /\ "register" \in Allowed
        BY <1>1, <1>2 DEF Sound
    <2> QED BY <1>4, <2>1 DEF Sound
<1>6. \A d \in Clients \ {c} : Owned(c)' = Owned(d) => Owned(d) = 0
    BY <1>2 DEF InSync, Apart
<1> QED BY <1>5, <1>6, ClientInSync

LEMMA DeliverSyncInSync ==
    ASSUME Base, InSync, NEW c \in Clients, DeliverSync(c)
    PROVE  InSync'
<1>1. PICK S : /\ client' = [client EXCEPT ![c] = Applied(client[c], wire[c], S)]
               /\ S = Suites \/ (wire[c].kind = "delta" /\ Misfit(client[c].defs, wire[c]))
    BY DeliverSyncIs
<1>2. /\ wire' = [wire EXCEPT ![c] = NoReply] /\ wire[c].kind \in {"full", "delta"}
      /\ UNCHANGED <<ecf, root, suite, handle>>
    BY DeliverSyncIs
<1>3. client \in [Clients -> Records] /\ wire \in [Clients -> Replies]
    BY TypesAre DEF Base
<1>4. S = Suites
    BY <1>1 DEF InSync, Sound
<1>5. client'[c] = Held(c) /\ Held(c) \in Records /\ Held(c) \in Copies(c)
    BY <1>1, <1>2, <1>3, <1>4, HeldIs DEF Held, Copies
<1>6. client'[c].h = Owned(c)
    <2>1. client'[c].h = client[c].h
        BY <1>5, HeldIs
    <2> QED BY <1>2, <2>1 DEF Owned
<1>7. wire'[c].kind = "none" /\ \A d \in Clients \ {c} : client'[d] = client[d] /\ wire'[d] = wire[d]
    BY <1>1, <1>2, <1>3, NoReplyType
<1> QED BY <1>2, <1>5, <1>6, <1>7, QuietInSync

LEMMA DeliverHandleInSync ==
    ASSUME Base, InSync, NEW c \in Clients, DeliverHandle(c)
    PROVE  InSync'
<1>1. /\ client' = [client EXCEPT ![c].h = wire[c].h] /\ wire' = [wire EXCEPT ![c] = NoReply]
      /\ wire[c].kind = "handle" /\ UNCHANGED <<ecf, root, suite, handle>>
    BY DEF DeliverHandle, server
<1>2. client \in [Clients -> Records] /\ wire \in [Clients -> Replies]
    BY TypesAre DEF Base
<1>3. client[c].defs = None /\ Owned(c) = wire[c].h
    BY <1>1 DEF InSync, Sound, Owned
<1>4. wire[c].h \in Handles \cup {0}
    BY <1>1, <1>2, ReplyCases
<1>5. client'[c] \in Records /\ client'[c].h = wire[c].h /\ client'[c].defs = client[c].defs
    BY <1>1, <1>2, <1>4 DEF Records
<1>6. wire'[c].kind = "none" /\ \A d \in Clients \ {c} : client'[d] = client[d] /\ wire'[d] = wire[d]
    BY <1>1, <1>2, NoReplyType
<1> QED BY <1>1, <1>3, <1>5, <1>6, QuietInSync

LEMMA LoseInSync ==
    ASSUME Base, InSync, Undisturbed, NEW c \in Clients, Lose(c)
    PROVE  InSync'
<1>1. /\ wire' = [wire EXCEPT ![c] = NoReply] /\ UNCHANGED <<ecf, root, suite, handle, client>>
      /\ client[c].h = 0
    BY DEF Lose, Undisturbed, Event
<1>2. client[c] \in Records /\ wire \in [Clients -> Replies]
    BY TypesAre DEF Base
<1>3. client'[c] \in Copies(c)
    BY <1>1 DEF Copies
<1>4. wire'[c].kind = "none" /\ \A d \in Clients \ {c} : wire'[d] = wire[d]
    BY <1>1, <1>2, NoReplyType
<1> QED BY <1>1, <1>2, <1>3, <1>4, QuietInSync

LEMMA ResetInSync ==
    ASSUME Base, InSync, NEW c \in Clients, Reset(c)
    PROVE  InSync'
<1>1. /\ client' = [client EXCEPT ![c] = [client[c] EXCEPT !.h = 0, !.defs = None]]
      /\ wire[c].kind = "none" /\ UNCHANGED <<ecf, root, suite, handle, wire>>
    BY DEF Reset, server, Idle
<1>2. client \in [Clients -> Records]
    BY TypesAre DEF Base
<1>3. /\ client'[c] \in Records /\ client'[c].h = 0 /\ client'[c].defs = None
      /\ \A d \in Clients \ {c} : client'[d] = client[d]
    BY <1>1, <1>2 DEF Records
<1> QED BY <1>1, <1>3, QuietInSync

LEMMA RegisterInSync ==
    ASSUME Base, InSync, Undisturbed, NEW c \in Clients, NEW old \in {0, client[c].h},
           NEW names \in SUBSET Suites, NEW auto \in BOOLEAN, Register(c, old, names, auto)
    PROVE  InSync'
<1>1. PICK h \in Handles : Registered(c, old, h)
    BY RegisterIs
<1>2. /\ wire[c].kind = "none" /\ UNCHANGED <<ecf, root, suite, client>>
      /\ (client[c].defs = None /\ "register" \in Allowed) \/ "reregister" \in Allowed
    BY RegisterIs
<1>3. client[c].defs = None /\ "register" \in Allowed
    BY <1>2 DEF Undisturbed
<1>4. wire \in [Clients -> Replies] /\ client[c] \in Records
    BY TypesAre DEF Base
<1>5. /\ wire'[c] = [kind |-> "handle", h |-> h] /\ wire'[c].kind = "handle" /\ wire'[c].h = h
      /\ \A d \in Clients \ {c} : wire'[d] = wire[d]
    BY <1>1, <1>4 DEF Registered
<1>6. Owned(c)' = h /\ Copies(c)' \subseteq {client[c]}
    BY <1>2, <1>5 DEF Owned, Copies, Held
<1>7. Sound(c)'
    <2>1. \A cl \in Copies(c)' : UpToDate(cl)'
        BY <1>3, <1>6 DEF UpToDate
    <2>2. Owned(c)' # 0 => handle'[Owned(c)'].on /\ "register" \in Allowed
        BY <1>1, <1>3, <1>6 DEF Registered
    <2> QED BY <1>2, <1>3, <1>5, <2>1, <2>2 DEF Sound
<1>8. ASSUME NEW d \in Clients \ {c}, Owned(d) # 0
      PROVE  handle'[Owned(d)] = handle[Owned(d)] /\ Owned(d) # h
    <2>1. Owned(d) \in Handles /\ handle[Owned(d)].on
        BY <1>8, HeldIs DEF InSync, Sound
    <2>2. Owned(d) # Owned(c) /\ Owned(c) = client[c].h
        BY <1>2, <1>8 DEF InSync, Apart, Owned
    <2>3. Owned(d) # old
        BY <1>8, <2>2
    <2>4. Owned(d) # h
        BY <1>1, <2>1, <2>3 DEF Registered
    <2> QED BY <1>1, <2>1, <2>3, <2>4 DEF Registered
<1>9. \A d \in Clients \ {c} : Owned(c)' = Owned(d) => Owned(d) = 0
    BY <1>6, <1>8
<1> QED BY <1>2, <1>5, <1>7, <1>8, <1>9, ClientInSync

LEMMA OwnCmdInSync ==
    ASSUME Base, InSync, NEW c \in Clients, OwnCmd(c)
    PROVE  InSync'
<1> DEFINE h == client[c].h
<1>1. /\ "register" \in Allowed /\ h # 0 /\ wire[c].kind = "none"
      /\ \A g \in Handles \ {h} : handle'[g] = handle[g]
      /\ wire' = [wire EXCEPT ![c] = NoReply] /\ UNCHANGED <<ecf, root, suite, client>>
      /\ handle'[h].on /\ handle'[h].mno = handle[h].mno
      /\ handle[h].changed => handle'[h].changed
      /\ handle'[h].changed \/ handle'[h].names \cap Live = handle[h].names \cap Live
    BY DEF OwnCmd
<1>2. wire \in [Clients -> Replies] /\ client[c] \in Records
    BY TypesAre DEF Base
<1>3. wire'[c].kind = "none" /\ \A d \in Clients \ {c} : wire'[d] = wire[d]
    BY <1>1, <1>2, NoReplyType
<1>4. Owned(c)' = h /\ Owned(c) = h /\ Copies(c)' = {client[c]} /\ Copies(c) = {client[c]}
    BY <1>1, <1>3 DEF Owned, Copies, Held
<1>5. \A cl \in Copies(c)' : UpToDate(cl)'
    <2> TAKE cl \in Copies(c)'
    <2>1. cl \in Records /\ UpToDate(cl) /\ cl.h = h
        BY <1>2, <1>4 DEF InSync, Sound
    <2> QED BY <1>1, <2>1, HandleKeeps
<1>6. Sound(c)'
    BY <1>1, <1>3, <1>4, <1>5 DEF Sound
<1>7. \A d \in Clients \ {c} : Owned(d) # 0 => handle'[Owned(d)] = handle[Owned(d)]
    BY <1>1, OthersSpared
<1>8. \A d \in Clients \ {c} : Owned(c)' = Owned(d) => Owned(d) = 0
    BY <1>4 DEF InSync, Apart
<1> QED BY <1>1, <1>3, <1>6, <1>7, <1>8, ClientInSync

LEMMA StutterInSync ==
    ASSUME Base, InSync, UNCHANGED vars
    PROVE  InSync'
<1>1. UNCHANGED <<ecf, root, suite, handle, cache, client, wire, saved>>
    BY DEF vars
<1>2. NumberedStep
    BY <1>1, TypesAre DEF NumberedStep, Kept, Blank, Base
<1> QED BY <1>2, NumberedInSync

LEMMA InitInSync == Init => InSync
<1> SUFFICES ASSUME Init PROVE InSync
    OBVIOUS
<1>1. \A c \in Clients : /\ client[c] = [h |-> 0, s |-> 0, m |-> 0, defs |-> None]
                         /\ wire[c].kind = "none"
    BY DEF Init, NoReply
<1>2. \A c \in Clients : Owned(c) = 0 /\ Copies(c) \subseteq {client[c]} /\ client[c].defs = None
    BY <1>1 DEF Owned, Copies, Held
<1>3. \A c \in Clients : Sound(c)
    BY <1>1, <1>2 DEF Sound, UpToDate
<1> QED BY <1>2, <1>3 DEF InSync, Apart

\* The inductive invariant of an undisturbed protocol.
Mirrored == Base /\ InSync

LEMMA MirroredStep == Undisturbed /\ Mirrored /\ [Next]_vars => Mirrored'
<1> SUFFICES ASSUME Undisturbed, Base, InSync, [Next]_vars PROVE InSync'
    BY BaseStep DEF Mirrored
<1>1. CASE ServerNumbered
    BY <1>1, ServerIsNumbered, NumberedInSync
<1>2. CASE \E n, q \in Suites, v \in Vals : QueueByPath(n, q, v)
    BY <1>2 DEF QueueByPath, Event, Undisturbed
<1>3. CASE Clear
    BY <1>3, ClearInSync
<1>4. CASE CheckPoint \/ Restart
    BY <1>4 DEF CheckPoint, Restart, Event, Undisturbed
<1>5. CASE \E c \in Clients : ClientStep(c)
    <2> PICK c \in Clients : ClientStep(c)
        BY <1>5
    <2>1. CASE \E clock \in BOOLEAN : Sync(c, clock)
        BY <2>1, SyncInSync
    <2>2. CASE DeliverSync(c) \/ DeliverHandle(c) \/ Lose(c) \/ Reset(c)
        BY <2>2, DeliverSyncInSync, DeliverHandleInSync, LoseInSync, ResetInSync
    <2>3. CASE \E old \in {0, client[c].h}, names \in SUBSET Suites, auto \in BOOLEAN :
                  Register(c, old, names, auto)
        BY <2>3, RegisterInSync
    <2>4. CASE Drop(c) \/ \E d \in Clients : DropUser(c, UserOf[d])
        BY <2>4 DEF Drop, DropUser, Event, Undisturbed
    <2>5. CASE \E n \in Suites : AddToHandle(c, n) \/ RemoveFromHandle(c, n)
        BY <2>5, AddToHandleOwn, RemoveFromHandleOwn, OwnCmdInSync
    <2>6. CASE \E flag \in BOOLEAN : AutoAdd(c, flag)
        BY <2>6, AutoAddOwn, OwnCmdInSync
    <2> QED BY <2>1, <2>2, <2>3, <2>4, <2>5, <2>6 DEF ClientStep
<1>6. CASE UNCHANGED vars
    BY <1>6, StutterInSync
<1> QED BY <1>1, <1>2, <1>3, <1>4, <1>5, <1>6 DEF Next, ServerStep, ServerNumbered

LEMMA AlwaysMirrored == ASSUME Undisturbed PROVE Spec => []Mirrored
<1>1. Init => Mirrored
    BY InitBase, InitInSync DEF Mirrored
<1>2. Mirrored /\ [Next]_vars => Mirrored'
    BY MirroredStep
<1> QED BY <1>1, <1>2, PTL DEF Spec

\* SSyncCmd::init sends enough: in an undisturbed protocol a sync of any client
\* at any moment leaves it with the server's definition, limited to the suites
\* of its handle, however the change numbers of definition, suites and handle
\* were taken since its last sync, and a delta names no suite it does not have.
THEOREM SyncAlwaysMirrors == ASSUME Undisturbed PROVE Spec => []SyncMirrors
<1>1. Mirrored => SyncMirrors
    <2> SUFFICES ASSUME Mirrored, NEW c \in Clients, Idle(c), Known(client[c].h)
                 PROVE  LET r == SyncReply(c, FALSE) IN
                        /\ r.kind = "delta" => ~Misfit(client[c].defs, r)
                        /\ NoClock(Applied(client[c], r, Suites).defs) = View(client[c].h)
        BY DEF SyncMirrors
    <2>1. UpToDate(client[c])
        BY DEF Mirrored, InSync, Sound, Copies, Held, Idle
    <2> QED BY <2>1, SyncExact DEF Mirrored
<1> QED BY <1>1, AlwaysMirrored, PTL

\* SNewsCmd::init says there are no news only to a client whose copy is the
\* server's definition, limited to the suites of its handle.
THEOREM NoNewsAlwaysTrue == ASSUME Undisturbed PROVE Spec => []NoNewsIsTrue
<1>1. Mirrored => NoNewsIsTrue
    <2> SUFFICES ASSUME Mirrored, NEW c \in Clients, Idle(c), client[c].defs # None,
                        News(c) = "NO_NEWS"
                 PROVE  NoClock(client[c].defs) = View(client[c].h)
        BY DEF NoNewsIsTrue
    <2> DEFINE cl == client[c]  h == cl.h
    <2>1. UpToDate(cl) /\ Base
        BY DEF Mirrored, InSync, Sound, Copies, Held, Idle
    <2>2. cl \in Records /\ cl.s \in Nat /\ cl.m \in Nat /\ h \in Handles \cup {0}
        BY <2>1, TypesAre DEF Base, Records
    <2>3. ServerNo(h).s \in Nat /\ ServerNo(h).m \in Nat /\ root.no <= ServerNo(h).s
          /\ \A n \in Scope(h) : suite[n].sno <= ServerNo(h).s
        BY <2>1, <2>2, ServerNoIs DEF Base
    <2>4. Known(h) /\ cl.s = ServerNo(h).s /\ cl.m = ServerNo(h).m /\ (h # 0 => ~handle[h].changed)
        BY <2>2, <2>3 DEF News
    <2>5. ~SendsFull(c)
        BY <2>2, <2>3, <2>4 DEF SendsFull
    <2>6. cl.defs \in Defs /\ Covers(cl, Scope(h))
        BY <2>1, <2>4, <2>5, DeltaCovers
    <2>7. Scope(h) \subseteq Live /\ Live \subseteq Suites
        BY <2>1, <2>2, ScopeType, LiveType DEF Base, Typed
    <2>8. root.no \in Nat /\ \A n \in Scope(h) : suite[n].sno \in Nat
        BY <2>1, <2>7, TypesAre DEF Base, SuiteType
    <2>9. root.v = cl.defs.root /\ \A n \in Scope(h) : suite[n].v = cl.defs.item[n]
        BY <2>2, <2>3, <2>4, <2>6, <2>8 DEF Covers
    <2> DEFINE want == [n \in Suites |-> IF n \in Scope(h) THEN suite[n].v ELSE 0]
    <2>10. View(h) = [root |-> root.v, on |-> Live \cap Scope(h), item |-> want]
        BY <2>7 DEF View, NoClock, Limited, Now
    <2>11. cl.defs.item = want
        BY <2>6, <2>9 DEF Covers, Defs
    <2>12. cl.defs.on = Live \cap Scope(h)
        BY <2>6, <2>7 DEF Covers
    <2>13. NoClock(cl.defs) = [root |-> cl.defs.root, on |-> cl.defs.on, item |-> cl.defs.item]
        BY DEF NoClock
    <2> HIDE DEF want
    <2> QED BY <2>9, <2>10, <2>11, <2>12, <2>13
<1> QED BY <1>1, AlwaysMirrored, PTL

-----------------------------------------------------------------------------
(* The protocol implements Mirror *)

\* The refinement mapping of Abstract, client by client.
Shown(c)   == IF Known(client[c].h) THEN View(client[c].h) ELSE None
Copy(c)    == IF client[c].defs = None THEN None ELSE NoClock(client[c].defs)
Waiting(c) == IF wire[c].kind \in {"full", "delta"}
              THEN NoClock(Applied(client[c], wire[c], Suites).defs) ELSE None

ShownAll   == [c \in Clients |-> Shown(c)]
CopyAll    == [c \in Clients |-> Copy(c)]
WaitingAll == [c \in Clients |-> Waiting(c)]

ShownOK == \A c \in Clients : Shown(c) \in Views \cup {None}

LEMMA ShownType == Base => ShownOK
<1> SUFFICES ASSUME Base, NEW c \in Clients PROVE Shown(c) \in Views \cup {None}
    BY DEF ShownOK
<1>1. Limited(Now, Scope(client[c].h)) \in Defs
    BY NowType, LimitedType DEF Base, Typed
<1> QED BY <1>1, NoClockType DEF Shown, View

\* The abstract steps, in terms of the mapping.
LEMMA MapChange ==
    ASSUME \A c \in Clients : Shown(c)' \in Views \cup {None},
           \A c \in Clients : Copy(c)' = Copy(c) /\ Waiting(c)' = Waiting(c)
    PROVE  Abstract!Change
<1>1. ShownAll' \in [Clients -> Views \cup {None}] /\ CopyAll' = CopyAll /\ WaitingAll' = WaitingAll
    BY DEF ShownAll, CopyAll, WaitingAll
<1> QED BY <1>1 DEF Abstract!Change, ShownAll, CopyAll, WaitingAll, Shown, Copy, Waiting

LEMMA MapServe ==
    ASSUME NEW c \in Clients, Waiting(c) = None, Waiting(c)' = Shown(c),
           \A d \in Clients : Shown(d)' = Shown(d) /\ Copy(d)' = Copy(d),
           \A d \in Clients \ {c} : Waiting(d)' = Waiting(d)
    PROVE  Abstract!Serve(c)
<1>1. /\ WaitingAll[c] = None /\ ShownAll' = ShownAll /\ CopyAll' = CopyAll
      /\ WaitingAll' = [WaitingAll EXCEPT ![c] = ShownAll[c]]
    BY DEF ShownAll, CopyAll, WaitingAll
<1> QED BY <1>1 DEF Abstract!Serve, ShownAll, CopyAll, WaitingAll, Shown, Copy, Waiting

LEMMA MapDeliver ==
    ASSUME NEW c \in Clients, Waiting(c) # None, Copy(c)' = Waiting(c), Waiting(c)' = None,
           \A d \in Clients : Shown(d)' = Shown(d),
           \A d \in Clients \ {c} : Copy(d)' = Copy(d) /\ Waiting(d)' = Waiting(d)
    PROVE  Abstract!Deliver(c)
<1>1. /\ WaitingAll[c] # None /\ ShownAll' = ShownAll
      /\ CopyAll' = [CopyAll EXCEPT ![c] = WaitingAll[c]]
      /\ WaitingAll' = [WaitingAll EXCEPT ![c] = None]
    BY DEF ShownAll, CopyAll, WaitingAll
<1> QED BY <1>1 DEF Abstract!Deliver, ShownAll, CopyAll, WaitingAll, Shown, Copy, Waiting

LEMMA MapLose ==
    ASSUME NEW c \in Clients, Waiting(c)' = None,
           \A d \in Clients : Shown(d)' = Shown(d) /\ Copy(d)' = Copy(d),
           \A d \in Clients \ {c} : Waiting(d)' = Waiting(d)
    PROVE  Abstract!Lose(c)
<1>1. ShownAll' = ShownAll /\ CopyAll' = CopyAll /\ WaitingAll' = [WaitingAll EXCEPT ![c] = None]
    BY DEF ShownAll, CopyAll, WaitingAll
<1> QED BY <1>1 DEF Abstract!Lose, ShownAll, CopyAll, WaitingAll, Shown, Copy, Waiting

LEMMA MapForget ==
    ASSUME NEW c \in Clients, Waiting(c) = None, Copy(c)' = None,
           \A d \in Clients : Shown(d)' \in Views \cup {None} /\ Waiting(d)' = Waiting(d),
           \A d \in Clients \ {c} : Copy(d)' = Copy(d)
    PROVE  Abstract!Forget(c)
<1>1. /\ WaitingAll[c] = None /\ ShownAll' \in [Clients -> Views \cup {None}]
      /\ CopyAll' = [CopyAll EXCEPT ![c] = None] /\ WaitingAll' = WaitingAll
    BY DEF ShownAll, CopyAll, WaitingAll
<1> QED BY <1>1 DEF Abstract!Forget, ShownAll, CopyAll, WaitingAll, Shown, Copy, Waiting

LEMMA MirrorInit == Init => Abstract!Init
<1> SUFFICES ASSUME Init PROVE Abstract!Init
    OBVIOUS
<1>1. \A c \in Clients : Shown(c) \in Views \cup {None}
    BY InitBase, ShownType DEF ShownOK
<1>2. \A c \in Clients : Copy(c) = None /\ Waiting(c) = None
    BY DEF Init, Copy, Waiting, NoReply
<1>3. /\ ShownAll \in [Clients -> Views \cup {None}] /\ CopyAll = [c \in Clients |-> None]
      /\ WaitingAll = [c \in Clients |-> None]
    BY <1>1, <1>2 DEF ShownAll, CopyAll, WaitingAll
<1> QED BY <1>3 DEF Abstract!Init, ShownAll, CopyAll, WaitingAll, Shown, Copy, Waiting

\* What a client is shown, holds and waits for, when nothing of it changes.
LEMMA SameShown ==
    ASSUME UNCHANGED <<ecf, root, suite>>, NEW d \in Clients, client'[d].h = client[d].h,
           client[d].h \in Handles \cup {0},
           client[d].h # 0 => /\ handle'[client[d].h].on = handle[client[d].h].on
                              /\ handle'[client[d].h].names = handle[client[d].h].names
    PROVE  Shown(d)' = Shown(d)
<1> DEFINE h == client[d].h
<1>1. PICK k : k = h
    OBVIOUS
<1>2. Known(k)' <=> Known(k)
    BY <1>1, HandlesType DEF Known
<1>3. Scope(k)' = Scope(k)
    BY <1>1 DEF Scope, Live
<1>4. View(k)' = View(k)
    BY <1>3 DEF View, NoClock, Limited, Now, Live
<1>5. Shown(d)' = IF Known(k)' THEN View(k)' ELSE None
    BY <1>1 DEF Shown, Known, View, Scope, NoClock, Limited, Now, Live
<1> QED BY <1>1, <1>2, <1>4, <1>5 DEF Shown

LEMMA SameCopy ==
    ASSUME NEW d \in Clients, client'[d] = client[d]
    PROVE  /\ Copy(d)' = Copy(d)
           /\ wire'[d] = wire[d] => Waiting(d)' = Waiting(d)
<1>1. Copy(d)' = Copy(d)
    BY DEF Copy, NoClock
<1>2. wire'[d] = wire[d] => Waiting(d)' = Waiting(d)
    BY DEF Waiting, NoClock, Applied, Merged
<1> QED BY <1>1, <1>2

LEMMA ShownNext == Base' => \A c \in Clients : Shown(c)' \in Views \cup {None}
<1>1. Base' => ShownOK'
    BY ShownType, PTL
<1> QED BY <1>1 DEF ShownOK

LEMMA SyncMaps ==
    ASSUME Mirrored, NEW c \in Clients, NEW clock \in BOOLEAN, Sync(c, clock)
    PROVE  Abstract!Serve(c)
<1> DEFINE r == SyncReply(c, clock)  h == client[c].h
<1>1. /\ wire[c].kind = "none" /\ Known(h) /\ wire' = [wire EXCEPT ![c] = r]
      /\ UNCHANGED <<ecf, root, suite, client>>
    BY DEF Sync, Idle
<1>2. client \in [Clients -> Records] /\ wire \in [Clients -> Replies]
    BY TypesAre DEF Base, Mirrored
<1>3. \A d \in Clients : client[d].h \in Handles \cup {0}
    BY <1>2 DEF Records
<1>4. UpToDate(client[c])
    BY <1>1 DEF Mirrored, InSync, Sound, Copies, Held
<1>5. r.kind \in {"full", "delta"} /\ NoClock(Applied(client[c], r, Suites).defs) = View(h)
    BY <1>1, <1>4, SyncExact DEF Mirrored
<1>6. /\ \A g \in Handles \ {h} : handle'[g] = handle[g]
      /\ h # 0 => handle'[h].on = handle[h].on /\ handle'[h].names = handle[h].names
    <2>1. CASE SendsFull(c)
        <3>1. AfterFull(h)
            BY <2>1 DEF Sync
        <3> QED BY <1>3, <3>1, AfterFullIs DEF Mirrored
    <2>2. CASE ~SendsFull(c)
        BY <2>2 DEF Sync
    <2> QED BY <2>1, <2>2
<1>7. \A d \in Clients : Shown(d)' = Shown(d)
    <2> TAKE d \in Clients
    <2>1. client[d].h # 0 => /\ handle'[client[d].h].on = handle[client[d].h].on
                             /\ handle'[client[d].h].names = handle[client[d].h].names
        BY <1>3, <1>6
    <2> QED BY <1>1, <1>3, <2>1, SameShown
<1>8. \A d \in Clients : Copy(d)' = Copy(d)
    BY <1>1, SameCopy
<1>9. \A d \in Clients \ {c} : Waiting(d)' = Waiting(d)
    BY <1>1, <1>2, SameCopy
<1>10. Waiting(c) = None /\ Shown(c) = View(h)
    BY <1>1 DEF Waiting, Shown
<1> HIDE DEF r
<1>11. wire'[c] = r /\ client'[c] = client[c]
    BY <1>1, <1>2
<1>12. Waiting(c)' = View(h)
    BY <1>5, <1>11 DEF Waiting, NoClock, Applied, Merged
<1> QED BY <1>7, <1>8, <1>9, <1>10, <1>12, MapServe

LEMMA DeliverSyncMaps ==
    ASSUME Mirrored, NEW c \in Clients, DeliverSync(c)
    PROVE  Abstract!Deliver(c)
<1>1. PICK S : /\ client' = [client EXCEPT ![c] = Applied(client[c], wire[c], S)]
               /\ S = Suites \/ (wire[c].kind = "delta" /\ Misfit(client[c].defs, wire[c]))
    BY DeliverSyncIs DEF Mirrored
<1>2. /\ wire' = [wire EXCEPT ![c] = NoReply] /\ wire[c].kind \in {"full", "delta"}
      /\ UNCHANGED <<ecf, root, suite, handle>>
    BY DeliverSyncIs DEF Mirrored
<1>3. client \in [Clients -> Records] /\ wire \in [Clients -> Replies]
    BY TypesAre DEF Base, Mirrored
<1>4. S = Suites
    BY <1>1 DEF Mirrored, InSync, Sound
<1> DEFINE cl == Applied(client[c], wire[c], Suites)
<1>5. cl.defs \in Defs /\ cl.h = client[c].h
    <2>1. wire[c].kind = "delta" => client[c].defs # None
        BY DEF Mirrored, Base, Pending
    <2> QED BY <1>2, <1>3, <2>1, AppliedIs
<1>6. client'[c] = cl /\ wire'[c].kind = "none"
      /\ \A d \in Clients \ {c} : client'[d] = client[d] /\ wire'[d] = wire[d]
    BY <1>1, <1>2, <1>3, <1>4, NoReplyType
<1>7. Waiting(c) = NoClock(cl.defs)
    BY <1>2 DEF Waiting
<1> HIDE DEF cl
<1>8. cl.defs # None /\ NoClock(cl.defs) # None
    BY <1>5, NoClockType, SyncAssumption
<1>9. Copy(c)' = NoClock(cl.defs) /\ Waiting(c)' = None
    BY <1>6, <1>8 DEF Copy, Waiting, NoClock
<1>10. \A d \in Clients \ {c} : Copy(d)' = Copy(d) /\ Waiting(d)' = Waiting(d)
    BY <1>6, SameCopy
<1>11. \A d \in Clients : Shown(d)' = Shown(d)
    <2> TAKE d \in Clients
    <2>1. client'[d].h = client[d].h /\ client[d].h \in Handles \cup {0}
        BY <1>3, <1>5, <1>6 DEF Records
    <2> QED BY <1>2, <2>1, SameShown
<1> QED BY <1>7, <1>8, <1>9, <1>10, <1>11, MapDeliver

LEMMA LoseMaps ==
    ASSUME Mirrored, NEW c \in Clients, Lose(c)
    PROVE  Abstract!Lose(c)
<1>1. wire' = [wire EXCEPT ![c] = NoReply] /\ UNCHANGED <<ecf, root, suite, handle, client>>
    BY DEF Lose
<1>2. client \in [Clients -> Records] /\ wire \in [Clients -> Replies]
    BY TypesAre DEF Base, Mirrored
<1>3. wire'[c].kind = "none" /\ \A d \in Clients \ {c} : wire'[d] = wire[d]
    BY <1>1, <1>2, NoReplyType
<1>4. Waiting(c)' = None
    BY <1>3 DEF Waiting
<1>5. \A d \in Clients : Copy(d)' = Copy(d) /\ (wire'[d] = wire[d] => Waiting(d)' = Waiting(d))
    BY <1>1, SameCopy
<1>6. \A d \in Clients : Shown(d)' = Shown(d)
    <2> TAKE d \in Clients
    <2>1. client'[d].h = client[d].h /\ client[d].h \in Handles \cup {0}
        BY <1>1, <1>2 DEF Records
    <2> QED BY <1>1, <2>1, SameShown
<1> QED BY <1>3, <1>4, <1>5, <1>6, MapLose

LEMMA ResetMaps ==
    ASSUME Mirrored, Base', NEW c \in Clients, Reset(c)
    PROVE  Abstract!Forget(c)
<1>1. /\ client' = [client EXCEPT ![c] = [client[c] EXCEPT !.h = 0, !.defs = None]]
      /\ wire[c].kind = "none" /\ UNCHANGED <<ecf, root, suite, handle, wire>>
    BY DEF Reset, server, Idle
<1>2. client \in [Clients -> Records]
    BY TypesAre DEF Base, Mirrored
<1>3. client'[c].defs = None /\ \A d \in Clients \ {c} : client'[d] = client[d]
    BY <1>1, <1>2 DEF Records
<1>4. Waiting(c) = None /\ Waiting(c)' = None /\ Copy(c)' = None
    BY <1>1, <1>3 DEF Waiting, Copy
<1>5. \A d \in Clients \ {c} : Copy(d)' = Copy(d) /\ Waiting(d)' = Waiting(d)
    BY <1>1, <1>3, SameCopy
<1> QED BY <1>4, <1>5, ShownNext, MapForget

\* A step that touches no copy, and no reply but the handle on its way to c.
LEMMA ChangeMaps ==
    ASSUME Base', \A d \in Clients : client'[d].defs = client[d].defs,
           \A d \in Clients : \/ client'[d] = client[d] /\ wire'[d] = wire[d]
                              \/ wire[d].kind \in {"none", "handle"} /\ wire'[d].kind \in {"none", "handle"}
    PROVE  Abstract!Change
<1>1. ASSUME NEW d \in Clients
      PROVE  Copy(d)' = Copy(d) /\ Waiting(d)' = Waiting(d)
    <2>1. Copy(d)' = Copy(d)
        BY DEF Copy, NoClock
    <2>2. CASE client'[d] = client[d] /\ wire'[d] = wire[d]
        BY <2>1, <2>2, SameCopy
    <2>3. CASE wire[d].kind \in {"none", "handle"} /\ wire'[d].kind \in {"none", "handle"}
        BY <2>1, <2>3 DEF Waiting
    <2> QED BY <2>2, <2>3
<1> QED BY <1>1, ShownNext, MapChange

LEMMA MirrorStep ==
    ASSUME Undisturbed, Mirrored, Mirrored', [Next]_vars
    PROVE  [Abstract!Next]_(Abstract!mirrorVars)
<1> USE DEF Mirrored
<1>0. client \in [Clients -> Records] /\ wire \in [Clients -> Replies]
    BY TypesAre DEF Base
<1>1. ASSUME UNCHANGED <<client, wire>> PROVE Abstract!Change
    BY <1>1, ChangeMaps
<1>2. CASE ServerNumbered
    <2>1. UNCHANGED <<client, wire>>
        BY <1>2, ServerIsNumbered DEF NumberedStep
    <2> QED BY <1>1, <2>1 DEF Abstract!Next
<1>3. CASE \E n, q \in Suites, v \in Vals : QueueByPath(n, q, v)
    BY <1>3 DEF QueueByPath, Event, Undisturbed
<1>4. CASE Clear
    <2>1. UNCHANGED <<client, wire>>
        BY <1>4 DEF Clear
    <2> QED BY <1>1, <2>1 DEF Abstract!Next
<1>5. CASE CheckPoint \/ Restart
    BY <1>5 DEF CheckPoint, Restart, Event, Undisturbed
<1>6. CASE \E c \in Clients : ClientStep(c)
    <2> PICK c \in Clients : ClientStep(c)
        BY <1>6
    <2>1. CASE \E clock \in BOOLEAN : Sync(c, clock)
        BY <2>1, SyncMaps DEF Abstract!Next
    <2>2. CASE DeliverSync(c) \/ Lose(c) \/ Reset(c)
        BY <2>2, DeliverSyncMaps, LoseMaps, ResetMaps DEF Abstract!Next
    <2>3. CASE DeliverHandle(c)
        <3>1. /\ client' = [client EXCEPT ![c].h = wire[c].h] /\ wire' = [wire EXCEPT ![c] = NoReply]
              /\ wire[c].kind = "handle"
            BY <2>3 DEF DeliverHandle
        <3>2. client'[c].defs = client[c].defs /\ wire'[c].kind = "none"
              /\ \A d \in Clients \ {c} : client'[d] = client[d] /\ wire'[d] = wire[d]
            BY <1>0, <3>1, NoReplyType DEF Records
        <3> QED BY <3>1, <3>2, ChangeMaps DEF Abstract!Next
    <2>4. CASE \E old \in {0, client[c].h}, names \in SUBSET Suites, auto \in BOOLEAN :
                  Register(c, old, names, auto)
        <3>1. PICK old \in {0, client[c].h}, names \in SUBSET Suites, auto \in BOOLEAN :
                  Register(c, old, names, auto)
            BY <2>4
        <3>2. wire[c].kind = "none" /\ client' = client /\ \E h \in Handles : Registered(c, old, h)
            BY <3>1, RegisterIs
        <3>3. wire'[c].kind = "handle" /\ \A d \in Clients \ {c} : wire'[d] = wire[d]
            BY <1>0, <3>2 DEF Registered
        <3> QED BY <3>2, <3>3, ChangeMaps DEF Abstract!Next
    <2>5. CASE Drop(c) \/ \E d \in Clients : DropUser(c, UserOf[d])
        BY <2>5 DEF Drop, DropUser, Event, Undisturbed
    <2>6. CASE (\E n \in Suites : AddToHandle(c, n) \/ RemoveFromHandle(c, n))
               \/ \E flag \in BOOLEAN : AutoAdd(c, flag)
        <3>1. OwnCmd(c)
            BY <2>6, AddToHandleOwn, RemoveFromHandleOwn, AutoAddOwn
        <3>2. wire[c].kind = "none" /\ client' = client /\ wire' = [wire EXCEPT ![c] = NoReply]
            BY <3>1 DEF OwnCmd
        <3>3. wire'[c].kind = "none" /\ \A d \in Clients \ {c} : wire'[d] = wire[d]
            BY <1>0, <3>2, NoReplyType
        <3> QED BY <3>2, <3>3, ChangeMaps DEF Abstract!Next
    <2> QED BY <2>1, <2>2, <2>3, <2>4, <2>5, <2>6 DEF ClientStep
<1>7. CASE UNCHANGED vars
    <2>1. UNCHANGED <<client, wire>>
        BY <1>7 DEF vars
    <2> QED BY <1>1, <2>1 DEF Abstract!Next
<1> QED BY <1>2, <1>3, <1>4, <1>5, <1>6, <1>7 DEF Next, ServerStep, ServerNumbered

\* Change numbers, deltas, the cache and the handles amount to Mirror: a reply
\* to a sync request, applied by the client it reaches, is the definition the
\* server had when it served the request, limited to the suites the client
\* follows; a lost reply changes nothing for the next request.
THEOREM ImplementsMirror == ASSUME Undisturbed PROVE Spec => MirrorSpec
<1>1. Mirrored /\ Mirrored' /\ [Next]_vars => [Abstract!Next]_(Abstract!mirrorVars)
    BY MirrorStep
<1> QED BY <1>1, MirrorInit, AlwaysMirrored, PTL DEF Spec, MirrorSpec, Abstract!Spec
=============================================================================

-------------------------- MODULE TimeSlotsProofs ---------------------------
(***************************************************************************)
(* Proofs about TimeSlots: type correctness and OncePerSlot for every list *)
(* of attributes; for lists in the order of the day, that runs before their*)
(* time replace slots, and that no slot is lost.                           *)
(***************************************************************************)
EXTENDS TimeSlots, TLAPS

Attribute == [kind : {"time", "cron"}, start : Nat, finish : 0 .. Day - 1,
              incr : Nat, relative : BOOLEAN]

\* The next slot of a series is on its grid.
Grid(a, s) == hasIncrement(a) => \E k \in Nat : s.next = a.start + k * a.incr

LEMMA Products ==
    ASSUME NEW p \in Nat, NEW q \in Nat
    PROVE  p * q \in Nat /\ (q > 0 => p <= p * q)
PROOF BY SMT

LEMMA Distributes ==
    ASSUME NEW s \in Nat, NEW p \in Nat, NEW q \in Nat, NEW i \in Nat
    PROVE  s + p * i + q * i = s + (p + q) * i
PROOF BY SMT

LEMMA OneMore ==
    ASSUME NEW s \in Nat, NEW p \in Nat, NEW i \in Nat
    PROVE  s + p * i + i = s + (p + 1) * i
PROOF BY SMT

\* The loop of TimeSeries::requeue ends after the current time, on the grid.
LEMMA BeyondGrid ==
    ASSUME NEW a \in Attribute, hasIncrement(a), NEW n \in Nat, NEW t \in Int,
           NEW k \in Nat, n = a.start + k * a.incr
    PROVE  /\ Beyond(a, n, t) \in Nat /\ Beyond(a, n, t) > t
           /\ \E m \in Nat : Beyond(a, n, t) = a.start + m * a.incr
PROOF
<1>1. CASE t < n  BY <1>1 DEF Beyond, Attribute
<1>2. CASE ~(t < n)
  <2> DEFINE q == (t - n) \div a.incr
  <2>1. a.incr \in Nat \ {0} /\ a.start \in Nat  BY DEF Attribute, hasIncrement
  <2>2. q \in Nat  BY <2>1, <1>2
  <2>3. t - n < (q + 1) * a.incr  BY <2>1, <1>2, SMTT(30)
  <2>4. Beyond(a, n, t) = n + (q + 1) * a.incr  BY <1>2 DEF Beyond
  <2> HIDE DEF q
  <2>5. (q + 1) * a.incr \in Nat  BY <2>1, <2>2, Products
  <2>6. n + (q + 1) * a.incr = a.start + (k + (q + 1)) * a.incr
    <3>1. q + 1 \in Nat  BY <2>2
    <3> QED  BY <2>1, <3>1, Distributes
  <2>7. k + (q + 1) \in Nat  BY <2>2
  <2> QED  BY <2>1, <2>2, <2>3, <2>4, <2>5, <2>6, <2>7
<1> QED  BY <1>1, <1>2

-----------------------------------------------------------------------------
(* What the operations of an attribute keep *)

LEMMA AttrTypes ==
    /\ Day \in Nat /\ Day > 2
    /\ Index = 1 .. Len(Attrs)
    /\ \A i \in Index : Attrs[i] \in Attribute /\ Attrs[i].kind \in Kinds
                        /\ Attrs[i].start <= Attrs[i].finish
PROOF
<1>1. Attrs \in Seq(Attribute)  BY TimeAssumption DEF Attribute
<1>2. Index = 1 .. Len(Attrs) /\ \A i \in Index : Attrs[i] \in Attribute  BY <1>1 DEF Index
<1>3. \A i \in Index : Attrs[i].kind \in Kinds  BY DEF Kinds
<1>4. Day \in Nat /\ Day > 2  BY TimeAssumption
<1>5. \A i \in Index : Attrs[i].start <= Attrs[i].finish  BY TimeAssumption DEF Index
<1> QED  BY <1>1, <1>2, <1>3, <1>4, <1>5

LEMMA DurationType ==
    ASSUME NEW a \in Attribute, NEW s \in AttrState, NEW t \in 0 .. Day - 1
    PROVE  duration(a, s, t) \in 0 .. Day
PROOF BY AttrTypes DEF duration, AttrState, Attribute

\* An attribute that matches stands at one of its slots.
LEMMA FreeAtSlot ==
    ASSUME NEW a \in Attribute, NEW s \in AttrState, NEW t \in 0 .. Day - 1,
           Grid(a, s), isFree(a, s, t)
    PROVE  IsSlot(a, duration(a, s, t))
PROOF
<1> DEFINE d == duration(a, s, t)
<1>0. d \in 0 .. Day /\ Day \in Nat  BY DurationType, AttrTypes
<1>1. CASE ~hasIncrement(a)  BY <1>1 DEF isFree, IsSlot
<1>2. CASE hasIncrement(a)
  <2>1. a.incr \in Nat /\ a.incr > 0 /\ a.start \in Nat /\ a.finish \in 0 .. Day - 1
    BY <1>2 DEF Attribute, hasIncrement
  <2>2. PICK m \in Nat : s.next = a.start + m * a.incr  BY <1>2 DEF Grid
  <2>3. d <= a.finish /\ OnGrid(a, s.next, d)  BY <1>2 DEF isFree
  <2>4. PICK k \in 0 .. Day : d = s.next + k * a.incr  BY <2>3 DEF OnGrid
  <2>5. k \in Nat  BY <1>0
  <2> HIDE DEF d
  <2>6. d = a.start + (m + k) * a.incr  BY <2>1, <2>2, <2>4, <2>5, Distributes
  <2>7. m + k \in Nat  BY <2>5
  <2>8. m + k <= (m + k) * a.incr /\ (m + k) * a.incr \in Nat  BY <2>1, <2>7, Products
  <2>9. m + k \in 0 .. Day
    <3>1. \A x \in Nat : d = a.start + x => x <= Day  BY <1>0, <2>1
    <3> QED  BY <1>0, <2>6, <2>7, <2>8, <3>1
  <2>10. OnGrid(a, a.start, d)  BY <2>6, <2>9 DEF OnGrid
  <2> QED  BY <1>2, <2>3, <2>10 DEF IsSlot, d
<1> QED  BY <1>1, <1>2

LEMMA CalendarType ==
    ASSUME NEW a \in Attribute, NEW s \in AttrState, NEW by \in 1 .. 2, NEW changed \in BOOLEAN
    PROVE  calendarChanged(a, s, by, changed) \in AttrState
PROOF
<1>1. CASE a.relative  BY <1>1, AttrTypes DEF calendarChanged, AttrState, Attribute
<1>2. CASE ~a.relative  BY <1>2 DEF calendarChanged, AttrState, Attribute
<1> QED  BY <1>1, <1>2

LEMMA CalendarChangedKeeps ==
    ASSUME NEW a \in Attribute, NEW s \in AttrState, Grid(a, s),
           NEW by \in 1 .. 2, NEW changed \in BOOLEAN, NEW t \in 0 .. Day - 1
    PROVE  /\ attrChanged(a, s, t, by, changed) \in AttrState
           /\ Grid(a, attrChanged(a, s, t, by, changed))
PROOF
<1> DEFINE c == calendarChanged(a, s, by, changed)
<1>1. c \in AttrState  BY CalendarType
<1>2. Grid(a, c)
  <2>1. c.next = s.next \/ c.next = a.start  BY DEF calendarChanged, AttrState
  <2>2. a.start = a.start + 0 * a.incr  BY DEF Attribute
  <2> HIDE DEF c
  <2> QED  BY <2>1, <2>2 DEF Grid
<1>3. attrChanged(a, s, t, by, changed) = [c EXCEPT !.free = c.free \/ isFree(a, c, t)]
  BY DEF attrChanged
<1> HIDE DEF c
<1>4. isFree(a, c, t) \in BOOLEAN  BY DEF isFree
<1>5. [c EXCEPT !.free = c.free \/ isFree(a, c, t)] \in AttrState
  <2>1. c.free \/ isFree(a, c, t) \in BOOLEAN  BY <1>1, <1>4 DEF AttrState
  <2> QED  BY <1>1, <2>1 DEF AttrState
<1>6. [c EXCEPT !.free = c.free \/ isFree(a, c, t)].next = c.next  BY <1>1 DEF AttrState
<1> QED  BY <1>2, <1>3, <1>5, <1>6 DEF Grid

LEMMA ResetKeeps ==
    ASSUME NEW a \in Attribute, NEW s \in AttrState, NEW t \in 0 .. Day - 1
    PROVE  reset(a, s, t) \in AttrState /\ Grid(a, reset(a, s, t)) /\ reset(a, s, t).free = s.free
PROOF
<1> DEFINE r == resetOnly(a, s)
           d == duration(a, r, t)
           n == IF hasIncrement(a) THEN Beyond(a, a.start, d - 1) ELSE a.start
<1>1. r \in AttrState /\ r.free = s.free
  <2>1. 0 \in 0 .. Day /\ a.start \in Nat  BY AttrTypes DEF Attribute
  <2>2. r = [s EXCEPT !.valid = TRUE, !.next = a.start, !.elapsed = 0]  BY DEF resetOnly
  <2> HIDE DEF r
  <2> QED  BY <2>1, <2>2 DEF AttrState
<1>2. d \in 0 .. Day  BY <1>1, DurationType
<1>3. n \in Nat /\ (hasIncrement(a) => \E m \in Nat : n = a.start + m * a.incr)
  <2>1. CASE hasIncrement(a)
    <3>1. a.start \in Nat /\ a.start = a.start + 0 * a.incr  BY DEF Attribute
    <3>2. d - 1 \in Int  BY <1>2, AttrTypes
    <3> QED  BY <2>1, <3>1, <3>2, BeyondGrid
  <2>2. CASE ~hasIncrement(a)  BY <2>2 DEF Attribute
  <2> QED  BY <2>1, <2>2
<1> DEFINE v == IF hasIncrement(a) THEN n <= a.finish ELSE d <= a.start
           q == IF hasIncrement(a) /\ ~a.relative THEN t ELSE s.requeued
<1>4. v \in BOOLEAN
  <2>1. CASE hasIncrement(a)  BY <2>1
  <2>2. CASE ~hasIncrement(a)  BY <2>2
  <2> QED  BY <2>1, <2>2
<1>4b. q \in 0 .. Day - 1 \cup {None}  BY DEF AttrState
<1>5. reset(a, s, t) = [r EXCEPT !.next = n, !.valid = v, !.requeued = q]  BY DEF reset
<1> HIDE DEF r, n, v, q
<1>6. reset(a, s, t) \in AttrState /\ reset(a, s, t).next = n /\ reset(a, s, t).free = r.free
  BY <1>1, <1>3, <1>4, <1>4b, <1>5 DEF AttrState
<1> QED  BY <1>1, <1>3, <1>6 DEF Grid

\* After the re-queue no attribute stands at a slot.
LEMMA RequeueKeeps ==
    ASSUME NEW a \in Attribute, NEW s \in AttrState, Grid(a, s), NEW t \in 0 .. Day - 1,
           NEW again \in BOOLEAN
    PROVE  /\ requeue(a, s, t, again) \in AttrState
           /\ Grid(a, requeue(a, s, t, again))
           /\ ~isFree(a, requeue(a, s, t, again), t)
PROOF
<1> DEFINE d == duration(a, s, t)
           s0 == IF again THEN [s EXCEPT !.valid = TRUE, !.next = a.start] ELSE s
           n == Beyond(a, s0.next, d)
           r == requeue(a, s, t, again)
<1>1. d \in 0 .. Day /\ d \in Int  BY DurationType, AttrTypes
<1>2. s0 \in AttrState /\ s0.elapsed = s.elapsed /\ Grid(a, s0)
  <2>1. a.start = a.start + 0 * a.incr /\ a.start \in Nat  BY DEF Attribute
  <2>2. s0 \in AttrState /\ s0.elapsed = s.elapsed /\ (s0.next = s.next \/ s0.next = a.start)
    BY <2>1 DEF AttrState
  <2> HIDE DEF s0
  <2> QED  BY <2>1, <2>2 DEF Grid
<1>3. CASE ~hasIncrement(a)
  <2>1. r = [s0 EXCEPT !.valid = s0.valid /\ d < a.start]  BY <1>3 DEF requeue
  <2> HIDE DEF s0
  <2>2. r \in AttrState /\ r.elapsed = s.elapsed /\ (r.valid => d < a.start)
    BY <1>1, <1>2, <2>1 DEF AttrState
  <2>3. duration(a, r, t) = d  BY <2>2 DEF duration
  <2> HIDE DEF d, r
  <2>4. ~isFree(a, r, t)  BY <1>1, <1>3, <2>2, <2>3 DEF isFree, Attribute
  <2>5. Grid(a, r)  BY <1>3 DEF Grid
  <2> QED  BY <2>2, <2>4, <2>5 DEF r
<1>4. CASE hasIncrement(a)
  <2>1. PICK k \in Nat : s0.next = a.start + k * a.incr  BY <1>2, <1>4 DEF Grid
  <2>2. s0.next \in Nat  BY <1>2 DEF AttrState
  <2>3. n \in Nat /\ n > d /\ \E m \in Nat : n = a.start + m * a.incr
    <3> HIDE DEF s0, d
    <3> QED  BY <1>1, <1>4, <2>1, <2>2, BeyondGrid
  <2> DEFINE q == IF n > a.finish THEN None ELSE IF a.relative THEN s0.requeued ELSE t
  <2>4. q \in 0 .. Day - 1 \cup {None}  BY <1>2 DEF AttrState
  <2>5. r = [s0 EXCEPT !.next = n, !.valid = s0.valid /\ n <= a.finish, !.requeued = q]
    BY <1>4 DEF requeue
  <2> HIDE DEF s0, n, q, r
  <2>6. r \in AttrState /\ r.elapsed = s.elapsed /\ r.next = n
    BY <1>2, <2>3, <2>4, <2>5 DEF AttrState
  <2>7. duration(a, r, t) = d  BY <2>6 DEF duration, r
  <2> HIDE DEF d
  <2>8. ~isFree(a, r, t)
    <3>1. \A k1 \in 0 .. Day : n + k1 * a.incr # d
      <4> TAKE k1 \in 0 .. Day
      <4>1. k1 \in Nat /\ a.incr \in Nat  BY AttrTypes DEF Attribute
      <4>2. k1 * a.incr \in Nat  BY <4>1, Products
      <4> QED  BY <1>1, <2>3, <4>2
    <3> QED  BY <1>4, <2>6, <2>7, <3>1 DEF isFree, OnGrid
  <2>9. Grid(a, r)  BY <2>3, <2>6 DEF Grid
  <2> QED  BY <2>6, <2>8, <2>9 DEF r
<1> QED  BY <1>3, <1>4

LEMMA MissKeeps ==
    ASSUME NEW a \in Attribute, NEW s \in AttrState, Grid(a, s)
    PROVE  /\ miss_next_time_slot(a, s) \in AttrState
           /\ Grid(a, miss_next_time_slot(a, s))
PROOF
<1>1. CASE ~hasIncrement(a)  BY <1>1 DEF miss_next_time_slot, AttrState, Grid
<1>2. CASE hasIncrement(a)
  <2> DEFINE n == s.next + a.incr
             r == miss_next_time_slot(a, s)
  <2>1. n \in Nat  BY DEF AttrState, Attribute
  <2>2. r = [s EXCEPT !.next = n, !.valid = s.valid /\ n <= a.finish]
    BY <1>2 DEF miss_next_time_slot
  <2>3. PICK k \in Nat : s.next = a.start + k * a.incr  BY <1>2 DEF Grid
  <2>4. n = a.start + (k + 1) * a.incr
    <3>1. a.start \in Nat /\ a.incr \in Nat  BY DEF Attribute
    <3>2. \A x, y \in Nat : x + k * y + y = x + (k + 1) * y  BY OneMore
    <3>3. a.start + k * a.incr + a.incr = a.start + (k + 1) * a.incr  BY <3>1, <3>2, Zenon
    <3> QED  BY <2>3, <3>3, Zenon
  <2> HIDE DEF n, r
  <2>5. r \in AttrState /\ r.next = n  BY <2>1, <2>2 DEF AttrState
  <2>6. Grid(a, r)
    <3>1. k + 1 \in Nat  OBVIOUS
    <3> QED  BY <2>4, <2>5, <3>1 DEF Grid
  <2> QED  BY <2>5, <2>6 DEF r
<1> QED  BY <1>1, <1>2

-----------------------------------------------------------------------------
(* The inductive invariant *)

Grids == \A i \in Index : Grid(Attrs[i], attr[i])

\* An attribute that releases a queued task has had a slot since it was queued.
Released ==
    task.state = "queued" => \A i \in Index :
        /\ attr[i].free => hist.slots[Attrs[i].kind] # {} \/ Attrs[i].kind \in hist.freed
        /\ isFree(Attrs[i], attr[i], now) =>
               SlotsSince(Attrs[i].kind) # {} \/ Attrs[i].kind \in hist.freed

Inv == TypeOK /\ Grids /\ Released

\* Attributes of the right types, on their grids.
Sound(at) == at \in [Index -> AttrState] /\ \A i \in Index : Grid(Attrs[i], at[i])

LEMMA RequeuedSound ==
    ASSUME NEW at, Sound(at), NEW t \in 0 .. Day - 1, NEW again \in BOOLEAN, NEW rel \in BOOLEAN
    PROVE  /\ Sound(do_requeue_time_attrs(at, t, again, rel))
           /\ \A i \in Index : LET s == do_requeue_time_attrs(at, t, again, rel)[i]
                               IN ~s.free /\ ~isFree(Attrs[i], s, t)
PROOF
<1> DEFINE new == do_requeue_time_attrs(at, t, again, rel)
<1>1. new = [i \in Index |-> [requeue(Attrs[i], IF rel THEN [at[i] EXCEPT !.elapsed = 0] ELSE at[i],
                                      t, again) EXCEPT !.free = FALSE]]
  BY DEF do_requeue_time_attrs
<1>2. ASSUME NEW i \in Index
      PROVE  /\ new[i] \in AttrState /\ Grid(Attrs[i], new[i])
             /\ ~new[i].free /\ ~isFree(Attrs[i], new[i], t)
  <2> DEFINE a == Attrs[i]
             s == IF rel THEN [at[i] EXCEPT !.elapsed = 0] ELSE at[i]
             r == requeue(a, s, t, again)
  <2>1. a \in Attribute /\ at[i] \in AttrState /\ Grid(a, at[i])  BY AttrTypes DEF Sound
  <2>2. s \in AttrState /\ s.next = at[i].next
    <3>1. 0 \in 0 .. Day  BY AttrTypes
    <3> QED  BY <2>1, <3>1 DEF AttrState
  <2>3. Grid(a, s)  BY <2>1, <2>2 DEF Grid
  <2> HIDE DEF s, a
  <2>4. r \in AttrState /\ Grid(a, r) /\ ~isFree(a, r, t)  BY <2>1, <2>2, <2>3, RequeueKeeps
  <2>5. new[i] = [r EXCEPT !.free = FALSE]  BY <1>1 DEF s, a
  <2> HIDE DEF r, new
  <2>6. /\ new[i] \in AttrState /\ new[i].free = FALSE /\ new[i].next = r.next
        /\ new[i].valid = r.valid /\ new[i].elapsed = r.elapsed
    BY <2>4, <2>5 DEF AttrState
  <2>7. Grid(a, new[i])  BY <2>4, <2>6 DEF Grid
  <2>8. duration(a, new[i], t) = duration(a, r, t)  BY <2>6 DEF duration
  <2>9. ~isFree(a, new[i], t)  BY <2>4, <2>6, <2>8 DEF isFree
  <2> QED  BY <2>6, <2>7, <2>9 DEF a
<1>3. new \in [Index -> AttrState]  BY <1>1, <1>2
<1> HIDE DEF new
<1> QED  BY <1>2, <1>3 DEF Sound, new

LEMMA MissSound ==
    ASSUME Sound(attr)
    PROVE  Sound(miss(attr)) /\ Sound(freeHoldingTimeDependencies(attr, now))
PROOF
<1>0. \A i \in Index : /\ Attrs[i] \in Attribute /\ attr[i] \in AttrState /\ Grid(Attrs[i], attr[i])
                       /\ miss_next_time_slot(Attrs[i], attr[i]) \in AttrState
                       /\ Grid(Attrs[i], miss_next_time_slot(Attrs[i], attr[i]))
  BY AttrTypes, MissKeeps DEF Sound
<1>1. Sound(miss(attr))
  <2>1. CASE task.flag  BY <2>1 DEF miss
  <2>2. CASE ~task.flag
    <3>1. miss(attr) = [i \in Index |-> IF First(i, {j \in Index : attr[j].valid})
                                        THEN miss_next_time_slot(Attrs[i], attr[i]) ELSE attr[i]]
      BY <2>2 DEF miss
    <3> QED  BY <1>0, <3>1 DEF Sound
  <2> QED  BY <2>1, <2>2
<1>2. Sound(freeHoldingTimeDependencies(attr, now))
  <2> DEFINE new == freeHoldingTimeDependencies(attr, now)
             freed(i) == [miss_next_time_slot(Attrs[i], attr[i]) EXCEPT !.free = TRUE]
  <2>1. \A i \in Index : freed(i) \in AttrState
                         /\ freed(i).next = miss_next_time_slot(Attrs[i], attr[i]).next
    BY <1>0 DEF AttrState
  <2>2. \A i \in Index : Grid(Attrs[i], freed(i))  BY <1>0, <2>1 DEF Grid
  <2>3. new = [i \in Index |->
                IF First(i, {j \in Index : ~attr[j].free /\ ~isFree(Attrs[j], attr[j], now)})
                THEN freed(i) ELSE attr[i]]
    BY DEF freeHoldingTimeDependencies
  <2> HIDE DEF freed, new
  <2> QED  BY <1>0, <2>1, <2>2, <2>3 DEF Sound, new
<1> QED  BY <1>1, <1>2

LEMMA CheckedSound ==
    ASSUME NEW at, Sound(at)
    PROVE  Sound(checked(at, now))
PROOF
<1> DEFINE s(i) == [at[i] EXCEPT !.requeued = None]
<1>1. \A i \in Index : s(i) \in AttrState /\ s(i).next = at[i].next  BY DEF Sound, AttrState
<1>2. \A i \in Index : Grid(Attrs[i], s(i))  BY <1>1 DEF Sound, Grid
<1>3. checked(at, now) = [i \in Index |->
          IF at[i].valid /\ at[i].next <= Attrs[i].finish /\ ~dayPassed(Attrs[i], at[i], now)
          THEN s(i) ELSE at[i]]
  BY DEF checked
<1> HIDE DEF s
<1> QED  BY <1>1, <1>2, <1>3 DEF Sound

Histories == [slots : [Kinds -> SUBSET (0 .. Day)], freed : SUBSET Kinds,
              early : SUBSET (0 .. Day), taken : BOOLEAN, from : 0 .. Day,
              timed : BOOLEAN, overnight : BOOLEAN, begun : BOOLEAN]

LEMMA HistoryTypes ==
    ASSUME TypeOK, NEW early \in SUBSET (0 .. Day), NEW taken \in BOOLEAN, NEW timed \in BOOLEAN
    PROVE  /\ hist \in Histories /\ hist.early \in SUBSET (0 .. Day)
           /\ Left(early, taken) \in Histories /\ Enters(timed, early) \in Histories
PROOF
<1>1. hist \in Histories  BY DEF TypeOK, Histories
<1>2. NoSlots \in [Kinds -> SUBSET (0 .. Day)]  BY DEF NoSlots
<1>3. Left(early, taken) \in Histories /\ Left(early, FALSE) \in Histories
  <2>1. {} \in SUBSET Kinds /\ FALSE \in BOOLEAN  OBVIOUS
  <2> QED  BY <1>1, <1>2, <2>1 DEF Left, Histories
<1>4. now + 1 \in 0 .. Day  BY AttrTypes DEF TypeOK
<1>5. Enters(timed, early) \in Histories  BY <1>3, <1>4 DEF Enters, Histories
<1> QED  BY <1>1, <1>3, <1>5 DEF Histories

LEMMA EarlyType ==
    ASSUME TypeOK
    PROVE  Early \in SUBSET (0 .. Day)
PROOF
<1>1. hist.early \in SUBSET (0 .. Day) /\ hist.from \in 0 .. Day  BY DEF TypeOK
<1>2. SlotsOpen \subseteq 0 .. Day  BY <1>1, AttrTypes DEF SlotsOpen
<1> QED  BY <1>1, <1>2 DEF Early

LEMMA SoundAttr ==
    Inv => Sound(attr)
PROOF BY DEF Inv, TypeOK, Grids, Sound

\* Whatever completes the task keeps the invariant.
LEMMA CompletesKeeps ==
    ASSUME Inv, NEW at, Sound(at), NEW flag \in BOOLEAN, NEW inCmd \in BOOLEAN,
           NEW early \in SUBSET (0 .. Day), NEW taken \in BOOLEAN,
           Completes(flag, at, inCmd, early, taken),
           now' = now, cmds' \in 0 .. MaxCmds
    PROVE  Inv'
PROOF
<1> DEFINE Tasks == [state : {"queued", "running", "complete", "aborted"},
                     flag : BOOLEAN, repeat : 0 .. Repeats]
<1>0. TypeOK /\ now \in 0 .. Day - 1 /\ task \in Tasks /\ {} \in SUBSET (0 .. Day)
      /\ Repeats \in Nat
  BY TimeAssumption DEF Inv, TypeOK
<1>1. ASSUME NEW again \in BOOLEAN, NEW rel \in BOOLEAN, NEW e \in SUBSET (0 .. Day),
             NEW timed \in BOOLEAN, task' \in Tasks,
             attr' = do_requeue_time_attrs(at, now, again, rel), hist' = Enters(timed, e)
      PROVE  Inv'
  <2>1. Sound(attr') /\ \A i \in Index : ~attr'[i].free /\ ~isFree(Attrs[i], attr'[i], now)
    BY <1>0, <1>1, RequeuedSound
  <2>2. hist' \in Histories  BY <1>0, <1>1, HistoryTypes
  <2>3. Released'  BY <2>1 DEF Released
  <2>4. TypeOK'
    <3> HIDE DEF Tasks
    <3>1. attr' \in [Index -> AttrState]  BY <2>1 DEF Sound
    <3> QED  BY <1>0, <1>1, <2>2, <3>1 DEF TypeOK, Histories, Tasks
  <2> QED  BY <2>1, <2>3, <2>4 DEF Inv, Grids, Sound
<1>2. CASE /\ RepeatValid
           /\ task' = [state |-> "queued", flag |-> FALSE, repeat |-> task.repeat - 1]
           /\ attr' = do_requeue_time_attrs(at, now, TRUE, TRUE)
           /\ hist' = Enters(FALSE, {})
  <2>1. task.repeat - 1 \in 0 .. Repeats  BY <1>0, <1>2 DEF RepeatValid
  <2>2. task' \in Tasks  BY <1>2, <2>1
  <2> HIDE DEF Tasks
  <2> QED  BY <1>0, <1>1, <1>2, <2>2
<1>3. CASE /\ task' = [state |-> "queued", flag |-> FALSE, repeat |-> task.repeat]
           /\ attr' = do_requeue_time_attrs(at, now, ~flag, FALSE)
           /\ hist' = Enters(TRUE, early)
  <2>1. task' \in Tasks  BY <1>0, <1>3
  <2> HIDE DEF Tasks
  <2> QED  BY <1>1, <1>3, <2>1
<1>4. CASE /\ task' = [task EXCEPT !.state = "complete", !.flag = flag]
           /\ attr' = checked(at, now)
           /\ hist' = Left(early, taken)
  <2>1. task' \in Tasks /\ task'.state # "queued"  BY <1>0, <1>4
  <2>2. Sound(attr')  BY <1>4, CheckedSound
  <2>3. hist' \in Histories  BY <1>0, <1>4, HistoryTypes
  <2>4. attr' \in [Index -> AttrState]  BY <2>2 DEF Sound
  <2> HIDE DEF Tasks
  <2>5. TypeOK'  BY <1>0, <2>1, <2>3, <2>4 DEF TypeOK, Histories, Tasks
  <2> QED  BY <2>1, <2>2, <2>5 DEF Inv, Grids, Sound, Released
<1> QED  BY <1>2, <1>3, <1>4 DEF Completes

\* The calendar frees an attribute only at a slot, which the history records.
LEMMA TickKeeps ==
    ASSUME Inv, Tick
    PROVE  Inv'
PROOF
<1>0. TypeOK /\ Sound(attr) /\ Day \in Nat /\ now \in 0 .. Day - 1
  <2>1. TypeOK /\ Sound(attr)  BY SoundAttr DEF Inv
  <2>2. now \in 0 .. Day - 1  BY <2>1, Zenon DEF TypeOK
  <2> QED  BY <2>1, <2>2, AttrTypes
<1>1. PICK by \in 1 .. (IF Late THEN 2 ELSE 1) :
        LET t == (now + by) % Day
            dayChanged == now + by >= Day
            at == [i \in Index |-> attrChanged(Attrs[i], attr[i], t, by, dayChanged)]
        IN /\ now' = t
           /\ attr' = at
           /\ task' \in Generation(task, at, t)
           /\ hist' = [hist EXCEPT
                  !.slots = IF task'.state # "queued" THEN NoSlots
                            ELSE [k \in Kinds |-> hist.slots[k] \cup SlotsNow(k, at, t)],
                  !.freed = IF task'.state # "queued" THEN {} ELSE hist.freed,
                  !.early = IF dayChanged THEN {} ELSE hist.early,
                  !.overnight = task.state = "running" /\ (hist.overnight \/ dayChanged),
                  !.from = IF dayChanged THEN 0 ELSE hist.from, !.begun = FALSE]
           /\ UNCHANGED cmds
  BY DEF Tick
<1> DEFINE changed == now + by >= Day
<1>2. by \in 1 .. 2 /\ changed \in BOOLEAN  OBVIOUS
<1>3. now' \in 0 .. Day - 1  BY <1>0, <1>1, <1>2, AttrTypes
<1>4. attr' = [i \in Index |-> attrChanged(Attrs[i], attr[i], now', by, changed)]  BY <1>1
<1> DEFINE slots == IF task'.state # "queued" THEN NoSlots
                    ELSE [k \in Kinds |-> hist.slots[k] \cup SlotsNow(k, attr', now')]
           freed == IF task'.state # "queued" THEN {} ELSE hist.freed
           early == IF changed THEN {} ELSE hist.early
           overnight == task.state = "running" /\ (hist.overnight \/ changed)
           from == IF changed THEN 0 ELSE hist.from
<1>5. hist' = [hist EXCEPT !.slots = slots, !.freed = freed, !.early = early,
                           !.overnight = overnight, !.from = from, !.begun = FALSE]
  BY <1>1
<1>6. task' \in Generation(task, attr', now') /\ cmds' = cmds  BY <1>1
<1> HIDE DEF changed
<1>7. \A i \in Index : attr'[i] \in AttrState /\ Grid(Attrs[i], attr'[i])
  <2> TAKE i \in Index
  <2>1. Attrs[i] \in Attribute /\ attr[i] \in AttrState /\ Grid(Attrs[i], attr[i])
    BY <1>0, AttrTypes DEF Sound
  <2>2. attr'[i] = attrChanged(Attrs[i], attr[i], now', by, changed)  BY <1>4
  <2> QED  BY <1>2, <1>3, <2>1, <2>2, CalendarChangedKeeps
<1>8. attr' \in [Index -> AttrState]
  <2>1. attr' = [i \in Index |-> attr'[i]]  BY <1>4
  <2> QED  BY <1>7, <2>1
<1>9. task' \in [state : {"queued", "running", "complete", "aborted"}, flag : BOOLEAN,
                 repeat : 0 .. Repeats]
      /\ (task'.state = "queued" => task.state = "queued")
  <2>1. task \in [state : {"queued", "running", "complete", "aborted"}, flag : BOOLEAN,
                  repeat : 0 .. Repeats]
    BY <1>0 DEF TypeOK
  <2>2. task' = task \/ task' = [task EXCEPT !.state = "running"]  BY <1>6 DEF Generation
  <2> QED  BY <2>1, <2>2
<1>10. hist' \in Histories
  <2>1. hist \in Histories  BY <1>0 DEF TypeOK, Histories
  <2>2. slots \in [Kinds -> SUBSET (0 .. Day)]
    <3>1. \A k \in Kinds : SlotsNow(k, attr', now') \subseteq 0 .. Day  BY DEF SlotsNow
    <3>2. \A k \in Kinds : hist.slots[k] \in SUBSET (0 .. Day)  BY <2>1 DEF Histories
    <3> QED  BY <3>1, <3>2 DEF NoSlots
  <2>3. freed \in SUBSET Kinds /\ early \in SUBSET (0 .. Day)  BY <2>1 DEF Histories
  <2>4. from \in 0 .. Day
    <3>1. 0 \in 0 .. Day  BY AttrTypes
    <3> QED  BY <2>1, <3>1 DEF Histories
  <2>5. overnight \in BOOLEAN  OBVIOUS
  <2> HIDE DEF slots, freed, early, from, overnight
  <2> QED  BY <1>5, <2>1, <2>2, <2>3, <2>4, <2>5 DEF Histories
<1>11. TypeOK'  BY <1>0, <1>3, <1>6, <1>8, <1>9, <1>10 DEF TypeOK, Histories
<1>12. Released'
  <2> SUFFICES ASSUME task'.state = "queued", NEW i \in Index,
                      attr'[i].free \/ isFree(Attrs[i], attr'[i], now')
               PROVE  /\ SlotsSince(Attrs[i].kind)' # {} \/ Attrs[i].kind \in hist'.freed
                      /\ hist'.slots[Attrs[i].kind] # {} \/ Attrs[i].kind \in hist'.freed
    BY DEF Released
  <2> DEFINE a == Attrs[i]
             c == calendarChanged(a, attr[i], by, changed)
  <2>0. a \in Attribute /\ a.kind \in Kinds /\ attr[i] \in AttrState /\ Grid(a, attr[i])
    BY <1>0, AttrTypes DEF Sound
  <2>1. hist'.slots[a.kind] = hist.slots[a.kind] \cup SlotsNow(a.kind, attr', now')
        /\ hist'.freed = hist.freed /\ hist'.begun = FALSE
    BY <1>0, <1>5, <2>0 DEF TypeOK
  <2>2. SlotsSince(a.kind)' = hist'.slots[a.kind]  BY <2>1 DEF SlotsSince
  <2>3. attr'[i] = [c EXCEPT !.free = c.free \/ isFree(a, c, now')]  BY <1>4 DEF attrChanged
  <2>4. c.free = attr[i].free  BY <2>0 DEF calendarChanged, AttrState
  <2>5. c \in AttrState  BY <1>2, <2>0, CalendarType
  <2>6. isFree(a, c, now') = isFree(a, attr'[i], now')
    <3> HIDE DEF c
    <3>1. attr'[i].valid = c.valid /\ attr'[i].next = c.next /\ attr'[i].elapsed = c.elapsed
      BY <2>3, <2>5 DEF AttrState
    <3>2. duration(a, attr'[i], now') = duration(a, c, now')  BY <3>1 DEF duration
    <3> QED  BY <3>1, <3>2 DEF isFree
  <2>7. attr'[i].free = (c.free \/ isFree(a, c, now'))
    <3> HIDE DEF c
    <3>1. "free" \in DOMAIN c  BY <2>5 DEF AttrState
    <3> QED  BY <2>3, <3>1, Zenon
  <2> HIDE DEF c
  <2>8. attr[i].free \/ isFree(a, attr'[i], now')  BY <2>4, <2>6, <2>7
  <2>9. CASE attr[i].free
    <3>1. hist.slots[a.kind] # {} \/ a.kind \in hist.freed  BY <1>9, <2>9 DEF Inv, Released
    <3> QED  BY <2>1, <2>2, <3>1
  <2>10. CASE isFree(a, attr'[i], now')
    <3>1. IsSlot(a, duration(a, attr'[i], now')) /\ duration(a, attr'[i], now') \in 0 .. Day
      BY <1>3, <1>7, <2>0, <2>10, FreeAtSlot, DurationType
    <3>2. duration(a, attr'[i], now') \in SlotsNow(a.kind, attr', now')  BY <3>1 DEF SlotsNow
    <3> QED  BY <2>1, <2>2, <3>2
  <2> QED  BY <2>8, <2>9, <2>10
<1> QED  BY <1>7, <1>11, <1>12 DEF Inv, Grids

LEMMA InitKeeps ==
    ASSUME Init
    PROVE  Inv
PROOF
<1> DEFINE fresh(i) == [free |-> FALSE, valid |-> TRUE, next |-> Attrs[i].start,
                        requeued |-> None, elapsed |-> 0]
<1>0. /\ now \in 0 .. Day - 1 /\ cmds = 0 /\ MaxCmds \in Nat /\ Repeats \in Nat
      /\ attr = [i \in Index |-> reset(Attrs[i], fresh(i), now)]
      /\ task = [state |-> "queued", flag |-> FALSE, repeat |-> Repeats]
      /\ hist = [slots |-> NoSlots, freed |-> {}, early |-> {}, taken |-> FALSE,
                 from |-> now, timed |-> FALSE, overnight |-> FALSE, begun |-> TRUE]
  BY TimeAssumption DEF Init
<1>1. \A i \in Index : fresh(i) \in AttrState /\ fresh(i).free = FALSE
  <2> TAKE i \in Index
  <2>1. Attrs[i].start \in Nat /\ 0 \in 0 .. Day  BY AttrTypes DEF Attribute
  <2> QED  BY <2>1 DEF AttrState
<1> HIDE DEF fresh
<1>2. \A i \in Index : attr[i] \in AttrState /\ Grid(Attrs[i], attr[i]) /\ attr[i].free = FALSE
  BY <1>0, <1>1, AttrTypes, ResetKeeps
<1>3. attr \in [Index -> AttrState]  BY <1>0, <1>2
<1>4. hist \in Histories
  <2>1. NoSlots \in [Kinds -> SUBSET (0 .. Day)]  BY DEF NoSlots
  <2>2. now \in 0 .. Day  BY <1>0, AttrTypes
  <2> QED  BY <1>0, <2>1, <2>2 DEF Histories
<1>5. TypeOK  BY <1>0, <1>3, <1>4 DEF TypeOK, Histories
<1>6. ASSUME NEW i \in Index, isFree(Attrs[i], attr[i], now)
      PROVE  SlotsSince(Attrs[i].kind) # {}
  <2> DEFINE d == duration(Attrs[i], attr[i], now)
  <2>1. IsSlot(Attrs[i], d) /\ d \in 0 .. Day
    BY <1>0, <1>2, <1>6, AttrTypes, FreeAtSlot, DurationType
  <2>2. d \in SlotsNow(Attrs[i].kind, attr, now)  BY <2>1 DEF SlotsNow
  <2>3. hist.begun = TRUE  BY <1>0
  <2> QED  BY <2>2, <2>3 DEF SlotsSince
<1> QED  BY <1>2, <1>5, <1>6 DEF Inv, Grids, Released

\* A step after which the task is not queued keeps the invariant.
LEMMA LeavesKeeps ==
    ASSUME Inv, Sound(attr'), hist' \in Histories, now' = now, cmds' \in 0 .. MaxCmds,
           task' \in [state : {"running", "complete", "aborted"}, flag : BOOLEAN,
                      repeat : 0 .. Repeats]
    PROVE  Inv'
PROOF
<1>1. task' \in [state : {"queued", "running", "complete", "aborted"}, flag : BOOLEAN,
                 repeat : 0 .. Repeats] /\ task'.state # "queued"
  OBVIOUS
<1>2. attr' \in [Index -> AttrState]  BY DEF Sound
<1>3. now' \in 0 .. Day - 1  BY DEF Inv, TypeOK
<1>4. TypeOK'  BY <1>1, <1>2, <1>3 DEF TypeOK, Histories
<1> QED  BY <1>1, <1>4 DEF Inv, Grids, Sound, Released

LEMMA NextKeeps ==
    ASSUME Inv, [Next]_vars
    PROVE  Inv'
PROOF
<1> DEFINE Tasks(S) == [state : S, flag : BOOLEAN, repeat : 0 .. Repeats]
           Off == {"running", "complete", "aborted"}
<1>0. /\ TypeOK /\ Sound(attr) /\ hist \in Histories /\ hist.early \in SUBSET (0 .. Day)
      /\ cmds \in 0 .. MaxCmds /\ MaxCmds \in Nat /\ Repeats \in Nat
      /\ task \in Tasks({"queued"} \cup Off) /\ Early \in SUBSET (0 .. Day) /\ hist.taken \in BOOLEAN
      /\ now \in 0 .. Day - 1 /\ {} \in SUBSET (0 .. Day)
  <2>1. TypeOK  BY DEF Inv
  <2>2. hist \in Histories /\ hist.early \in SUBSET (0 .. Day) /\ hist.taken \in BOOLEAN
    BY <2>1 DEF TypeOK, Histories
  <2>3. Early \in SUBSET (0 .. Day)  BY <2>1, EarlyType
  <2>4. task \in Tasks({"queued"} \cup Off)  BY <2>1 DEF TypeOK
  <2> QED  BY <2>1, <2>2, <2>3, <2>4, SoundAttr, TimeAssumption DEF TypeOK
<1>1. \A e \in SUBSET (0 .. Day), b \in BOOLEAN : Left(e, b) \in Histories /\ Enters(b, e) \in Histories
  BY <1>0, HistoryTypes
<1>2. \A c : Cmd(c) => cmds' \in 0 .. MaxCmds /\ now' = now  BY <1>0 DEF Cmd
<1>3. Sound(miss(attr)) /\ Sound(freeHoldingTimeDependencies(attr, now))  BY <1>0, MissSound
<1>4. CASE Tick  BY <1>4, TickKeeps
<1>5. CASE Generate
  <2>1. task' \in Tasks(Off)  BY <1>0, <1>5 DEF Generate
  <2>2. hist' \in Histories  BY <1>0, <1>1, <1>5 DEF Generate
  <2> QED  BY <1>0, <1>5, <2>1, <2>2, LeavesKeeps DEF Generate
<1>6. CASE JobCompletes
  <2>1. task.flag \in BOOLEAN  BY <1>0
  <2>2. Completes(task.flag, attr, TRUE, hist.early, hist.taken)  BY <1>6 DEF JobCompletes
  <2>3. now' = now /\ cmds' \in 0 .. MaxCmds  BY <1>0, <1>6 DEF JobCompletes
  <2>4. Inv /\ Sound(attr) /\ hist.early \in SUBSET (0 .. Day) /\ hist.taken \in BOOLEAN  BY <1>0
  <2> QED  BY <2>1, <2>2, <2>3, <2>4, CompletesKeeps
<1>7. CASE CompleteByRule
  <2>1. task.flag \in BOOLEAN  BY <1>0
  <2>2. PICK inCmd \in BOOLEAN : Completes(task.flag, attr, inCmd, hist.early, hist.taken)
    BY <1>7 DEF CompleteByRule
  <2>3. now' = now /\ cmds' \in 0 .. MaxCmds  BY <1>0, <1>7 DEF CompleteByRule
  <2>4. Inv /\ Sound(attr) /\ hist.early \in SUBSET (0 .. Day) /\ hist.taken \in BOOLEAN  BY <1>0
  <2> QED  BY <2>1, <2>2, <2>3, <2>4, CompletesKeeps
<1>8. CASE JobAborts
  <2>1. task' \in Tasks(Off)  BY <1>0, <1>8 DEF JobAborts
  <2>2. hist' \in Histories  BY <1>0, <1>1, <1>8 DEF JobAborts
  <2>3. cmds' \in 0 .. MaxCmds /\ now' = now  BY <1>2, <1>8 DEF JobAborts
  <2> QED  BY <1>0, <1>8, <2>1, <2>2, <2>3, LeavesKeeps DEF JobAborts
<1>9. CASE Run
  <2>1. task' \in Tasks(Off)  BY <1>0, <1>9 DEF Run
  <2>2. hist' \in Histories
    <3>1. hist' = [Left(Early, TRUE) EXCEPT !.overnight = hist.overnight]  BY <1>9 DEF Run
    <3>2. Left(Early, TRUE) \in Histories /\ hist.overnight \in BOOLEAN  BY <1>0, <1>1 DEF Histories
    <3> QED  BY <3>1, <3>2 DEF Histories
  <2>3. cmds' \in 0 .. MaxCmds /\ now' = now  BY <1>2, <1>9 DEF Run
  <2>4. Sound(attr')  BY <1>3, <1>9 DEF Run
  <2> QED  BY <2>1, <2>2, <2>3, <2>4, LeavesKeeps
<1>10. CASE ForceComplete
  <2>0. cmds' \in 0 .. MaxCmds /\ now' = now  BY <1>2, <1>10 DEF ForceComplete
  <2>1. CASE Completes(TRUE, miss(attr), TRUE, Early, TRUE)
    BY <1>0, <1>3, <2>0, <2>1, CompletesKeeps
  <2>2. CASE /\ task.state = "complete"
             /\ attr' = miss(attr)
             /\ task' = [task EXCEPT !.flag = TRUE]
             /\ hist' = Left(Early, TRUE)
    <3>1. task' \in Tasks(Off)  BY <1>0, <2>2
    <3>2. hist' \in Histories /\ Sound(attr')  BY <1>0, <1>1, <1>3, <2>2
    <3> QED  BY <2>0, <3>1, <3>2, LeavesKeeps
  <2> QED  BY <1>10, <2>1, <2>2 DEF ForceComplete
<1>11. CASE FreeDep
  <2>0. cmds' \in 0 .. MaxCmds /\ now' = now  BY <1>2, <1>11 DEF FreeDep
  <2>1. Sound(attr') /\ task' = task  BY <1>3, <1>11 DEF FreeDep
  <2> DEFINE f == IF task.state = "queued" THEN Kinds ELSE {}
  <2>2. hist' = [hist EXCEPT !.freed = f, !.early = Early]  BY <1>11 DEF FreeDep
  <2>3. hist' \in Histories /\ hist'.freed = f  BY <1>0, <2>2 DEF Histories
  <2>4. TypeOK'
    <3>1. attr' \in [Index -> AttrState]  BY <2>1 DEF Sound
    <3>2. task' \in [state : {"queued", "running", "complete", "aborted"}, flag : BOOLEAN,
                     repeat : 0 .. Repeats]
      BY <1>0, <2>1
    <3> QED  BY <1>0, <2>0, <2>3, <3>1, <3>2 DEF TypeOK, Histories
  <2>5. Released'
    <3>1. \A i \in Index : Attrs[i].kind \in Kinds  BY AttrTypes
    <3> QED  BY <2>1, <2>3, <3>1 DEF Released
  <2> QED  BY <2>1, <2>4, <2>5 DEF Inv, Grids, Sound
<1>12. CASE RequeueNode
  <2>0. cmds' \in 0 .. MaxCmds /\ now' = now  BY <1>2, <1>12 DEF RequeueNode
  <2>1. Sound(attr') /\ \A i \in Index : ~attr'[i].free /\ ~isFree(Attrs[i], attr'[i], now)
    BY <1>0, <1>12, RequeuedSound DEF RequeueNode
  <2>2. hist' \in Histories  BY <1>0, <1>1, <1>12 DEF RequeueNode
  <2>3. task' \in [state : {"queued", "running", "complete", "aborted"}, flag : BOOLEAN,
                   repeat : 0 .. Repeats]
    BY <1>0, <1>12 DEF RequeueNode
  <2>4. attr' \in [Index -> AttrState]  BY <2>1 DEF Sound
  <2>5. TypeOK'  BY <1>0, <2>0, <2>2, <2>3, <2>4 DEF TypeOK, Histories
  <2>6. Released'  BY <2>0, <2>1 DEF Released
  <2> QED  BY <2>1, <2>5, <2>6 DEF Inv, Grids, Sound
<1>13. CASE UNCHANGED vars
  BY <1>13 DEF vars, Inv, TypeOK, Grids, Released, SlotsSince
<1> QED  BY <1>4, <1>5, <1>6, <1>7, <1>8, <1>9, <1>10, <1>11, <1>12, <1>13 DEF Next

-----------------------------------------------------------------------------

\* The type invariant of TimeSlots, for any attributes, day and commands.
THEOREM TypeCorrect == Spec => []TypeOK
PROOF
<1>1. Inv => TypeOK  BY DEF Inv
<1> QED  BY <1>1, InitKeeps, NextKeeps, PTL DEF Spec

\* Whatever the attributes of a task, a late server, the length of its jobs, its
\* repeat and its users: the clock releases a queued task only for a slot of
\* every kind of attribute that came since the task was queued.
THEOREM AlwaysOncePerSlot == Spec => []OncePerSlot
PROOF
<1>1. Inv => OncePerSlot
  <2> SUFFICES ASSUME Inv, task.state = "queued", timeDependenciesFree(attr, now), NEW k \in Kinds
               PROVE  SlotsSince(k) # {} \/ k \in hist.freed
    BY DEF OncePerSlot
  <2>1. PICK i \in Index : Attrs[i].kind = k /\ (attr[i].free \/ isFree(Attrs[i], attr[i], now))
    BY DEF timeDependenciesFree
  <2>2. hist.slots[k] \subseteq SlotsSince(k)  BY DEF SlotsSince
  <2> QED  BY <2>1, <2>2 DEF Inv, Released
<1> QED  BY <1>1, InitKeeps, NextKeeps, PTL DEF Spec

-----------------------------------------------------------------------------
(* Slots of the day *)

\* Where the order of the attributes is the order of the day: absolute times of
\* one kind, in ascending order, and no user frees dependencies.
InDayOrder ==
    /\ \A i \in Index : ~Attrs[i].relative
    /\ \A i, j \in Index : Attrs[i].kind = Attrs[j].kind
    /\ \A i, j \in Index : i < j => Attrs[i].finish < Attrs[j].start
    /\ "free" \notin Cmds

\* n can be the next slot of attribute a.
Placed(a, n) ==
    IF hasIncrement(a) THEN \E k \in Nat : n = a.start + k * a.incr ELSE n = a.start

LEMMA ProductsGrow ==
    ASSUME NEW p \in Nat, NEW q \in Nat, NEW i \in Nat, p <= q
    PROVE  p * i <= q * i /\ q * i = p * i + (q - p) * i /\ p * i \in Nat /\ q * i \in Nat
PROOF
<1>1. q - p \in Nat  OBVIOUS
<1>2. (q - p) * i \in Nat /\ p * i \in Nat /\ q * i \in Nat  BY <1>1, Products
<1>3. 0 + p * i + (q - p) * i = 0 + (p + (q - p)) * i  BY <1>1, Distributes
<1>4. p + (q - p) = q  OBVIOUS
<1>5. q * i = p * i + (q - p) * i  BY <1>2, <1>3, <1>4
<1> QED  BY <1>2, <1>5

LEMMA GridSteps ==
    ASSUME NEW p \in Nat, NEW q \in Nat, NEW i \in Nat, p * i < q * i
    PROVE  p < q /\ p * i + i <= q * i
PROOF
<1>0. p * i \in Nat /\ q * i \in Nat  BY Products
<1>1. p < q
  <2>1. q <= p => q * i <= p * i  BY ProductsGrow
  <2> QED  BY <1>0, <2>1
<1>2. (p + 1) * i <= q * i /\ (p + 1) * i \in Nat
  <2>1. p + 1 \in Nat /\ p + 1 <= q  BY <1>1
  <2> QED  BY <2>1, ProductsGrow
<1>3. 0 + p * i + i = 0 + (p + 1) * i  BY OneMore
<1> QED  BY <1>0, <1>1, <1>2, <1>3

LEMMA SlotIs ==
    ASSUME NEW a \in Attribute, a.start <= a.finish, NEW d \in Nat, IsSlot(a, d)
    PROVE  /\ Placed(a, d) /\ a.start <= d /\ d <= a.finish
PROOF
<1>0. a.start \in Nat /\ a.incr \in Nat /\ a.finish \in Nat  BY AttrTypes DEF Attribute
<1>1. CASE ~hasIncrement(a)  BY <1>0, <1>1 DEF IsSlot, Placed
<1>2. CASE hasIncrement(a)
  <2>1. d <= a.finish /\ OnGrid(a, a.start, d)  BY <1>2 DEF IsSlot
  <2>2. PICK k \in 0 .. Day : d = a.start + k * a.incr  BY <2>1 DEF OnGrid
  <2>3. k \in Nat  BY AttrTypes
  <2>4. k * a.incr \in Nat  BY <1>0, <2>3, Products
  <2>5. a.start <= d  BY <1>0, <2>2, <2>4
  <2> QED  BY <1>2, <2>1, <2>2, <2>3, <2>5 DEF Placed
<1> QED  BY <1>1, <1>2

LEMMA PlacedIsSlot ==
    ASSUME NEW a \in Attribute, a.start <= a.finish, NEW n \in Nat, Placed(a, n), n <= a.finish
    PROVE  IsSlot(a, n) /\ a.start <= n /\ n \in 0 .. Day
PROOF
<1>0. a.start \in Nat /\ a.incr \in Nat /\ a.finish \in 0 .. Day - 1 /\ Day \in Nat
  BY AttrTypes DEF Attribute
<1>1. CASE ~hasIncrement(a)  BY <1>0, <1>1 DEF IsSlot, Placed
<1>2. CASE hasIncrement(a)
  <2>1. PICK k \in Nat : n = a.start + k * a.incr  BY <1>2 DEF Placed
  <2>2. a.incr > 0  BY <1>0, <1>2 DEF hasIncrement
  <2>3. k * a.incr \in Nat /\ k <= k * a.incr  BY <1>0, <2>2, Products
  <2>4. k \in 0 .. Day /\ a.start <= n  BY <1>0, <2>1, <2>3
  <2> QED  BY <1>0, <1>2, <2>1, <2>4 DEF IsSlot, OnGrid
<1> QED  BY <1>1, <1>2

\* Two slots on the same grid are an increment apart.
LEMMA PlacedApart ==
    ASSUME NEW a \in Attribute, hasIncrement(a), NEW n \in Nat, NEW d \in Nat,
           Placed(a, n), Placed(a, d), n < d
    PROVE  /\ n + a.incr <= d
           /\ \E k \in Nat : d = n + k * a.incr
PROOF
<1>0. a.start \in Nat /\ a.incr \in Nat  BY DEF Attribute
<1>1. PICK p \in Nat : n = a.start + p * a.incr  BY DEF Placed
<1>2. PICK q \in Nat : d = a.start + q * a.incr  BY DEF Placed
<1>3. p * a.incr \in Nat /\ q * a.incr \in Nat  BY <1>0, Products
<1>4. p * a.incr < q * a.incr  BY <1>0, <1>1, <1>2, <1>3
<1>5. p < q /\ p * a.incr + a.incr <= q * a.incr  BY <1>0, <1>4, GridSteps
<1>6. q * a.incr = p * a.incr + (q - p) * a.incr  BY <1>0, <1>5, ProductsGrow
<1>7. q - p \in Nat  BY <1>5
<1>8. (q - p) * a.incr \in Nat  BY <1>0, <1>7, Products
<1>9. d = n + (q - p) * a.incr  BY <1>0, <1>1, <1>2, <1>3, <1>6, <1>8
<1> QED  BY <1>0, <1>1, <1>2, <1>3, <1>5, <1>7, <1>9

\* TimeSeries::requeue stops at the first slot after the current time.
LEMMA BeyondIsFirst ==
    ASSUME NEW a \in Attribute, hasIncrement(a), NEW n \in Nat, NEW t \in Nat, Placed(a, n)
    PROVE  /\ Beyond(a, n, t) \in Nat /\ Placed(a, Beyond(a, n, t))
           /\ Beyond(a, n, t) > t /\ Beyond(a, n, t) >= n
           /\ t < n => Beyond(a, n, t) = n
           /\ \A d \in Nat : Placed(a, d) /\ t < d /\ n <= d => Beyond(a, n, t) <= d
PROOF
<1>0. a.start \in Nat /\ a.incr \in Nat \ {0}  BY DEF Attribute, hasIncrement
<1>1. PICK k \in Nat : n = a.start + k * a.incr  BY DEF Placed
<1>2. /\ Beyond(a, n, t) \in Nat /\ Beyond(a, n, t) > t
      /\ \E m \in Nat : Beyond(a, n, t) = a.start + m * a.incr
  <2>1. t \in Int  OBVIOUS
  <2> QED  BY <1>1, <2>1, BeyondGrid, Zenon
<1>3. Placed(a, Beyond(a, n, t))  BY <1>2 DEF Placed
<1>4. t < n => Beyond(a, n, t) = n  BY DEF Beyond
<1>5. Beyond(a, n, t) >= n  BY <1>2, <1>4
<1>6. ASSUME NEW d \in Nat, Placed(a, d), t < d, n <= d, ~(t < n)  PROVE Beyond(a, n, t) <= d
  <2> DEFINE q == (t - n) \div a.incr
  <2>1. q \in Nat  BY <1>0, <1>6
  <2>2. q * a.incr <= t - n  BY <1>0, <1>6, SMTT(30)
  <2>3. Beyond(a, n, t) = n + (q + 1) * a.incr  BY <1>6 DEF Beyond
  <2> HIDE DEF q
  <2>4. q * a.incr \in Nat /\ n + q * a.incr + a.incr = n + (q + 1) * a.incr
    <3>1. a.incr \in Nat  BY <1>0
    <3>2. q * a.incr \in Nat  BY <2>1, <3>1, Products
    <3>3. n + q * a.incr + a.incr = n + (q + 1) * a.incr
      <4> DEFINE i == a.incr
      <4>1. i \in Nat  BY <3>1
      <4> HIDE DEF i
      <4>2. n + q * i + i = n + (q + 1) * i  BY <2>1, <4>1, OneMore
      <4> QED  BY <4>2 DEF i
    <3> QED  BY <3>2, <3>3
  <2>5. n + q * a.incr = a.start + (k + q) * a.incr  BY <1>0, <1>1, <2>1, Distributes
  <2>6. Placed(a, n + q * a.incr)
    <3>1. k + q \in Nat  BY <2>1
    <3> QED  BY <2>5, <3>1 DEF Placed
  <2>7. n + q * a.incr < d /\ n + q * a.incr \in Nat  BY <1>6, <2>2, <2>4
  <2>8. n + q * a.incr + a.incr <= d  BY <1>6, <2>6, <2>7, PlacedApart
  <2> QED  BY <2>3, <2>4, <2>8
<1> QED  BY <1>2, <1>3, <1>4, <1>5, <1>6

\* The next slot of s is one of a, within the finish while s is valid.
Tidy(a, s) == s.next \in Nat /\ Placed(a, s.next) /\ (s.valid => s.next <= a.finish)

\* From f on, a in state s will match at all its slots but those of e.
Agrees(a, s, f, e) == \A d \in f .. Day : IsSlot(a, d) => (d \in e <=> ~(s.valid /\ s.next <= d))

\* Before a valid attribute has had its last slot, those after it are untouched.
OneAfterAnother(at) ==
    \A i, j \in Index : i < j /\ at[i].valid => at[j].valid /\ at[j].next = Attrs[j].start

Tracks(at, f, e) ==
    /\ \A i \in Index : /\ Tidy(Attrs[i], at[i]) /\ Agrees(Attrs[i], at[i], f, e)
                        /\ at[i].valid => f <= at[i].next
    /\ OneAfterAnother(at)

\* r is s after a re-queue at time t.
Requeues(a, s, r, t) ==
    /\ r.next = IF hasIncrement(a) THEN Beyond(a, s.next, t) ELSE s.next
    /\ r.valid <=> s.valid /\ IF hasIncrement(a) THEN r.next <= a.finish ELSE t < a.start

\* The re-queue keeps the slots after the current time and no other.
LEMMA RequeuesKeeps ==
    ASSUME NEW a \in Attribute, a.start <= a.finish, NEW s, NEW r, NEW t \in Nat,
           Tidy(a, s), Requeues(a, s, r, t)
    PROVE  /\ Tidy(a, r)
           /\ r.valid => s.valid /\ t < r.next /\ t < a.finish
           /\ s.valid /\ s.next = a.start /\ t < a.start => r.valid /\ r.next = a.start
           /\ \A d \in Nat : IsSlot(a, d) /\ t < d =>
                  (r.valid /\ r.next <= d <=> s.valid /\ s.next <= d)
PROOF
<1>0. a.start \in Nat /\ a.incr \in Nat /\ a.finish \in Nat  BY AttrTypes DEF Attribute
<1>1. CASE ~hasIncrement(a)
  <2>1. r.next = a.start /\ s.next = a.start /\ (r.valid <=> s.valid /\ t < a.start)
    BY <1>1 DEF Requeues, Tidy, Placed
  <2>2. \A d : IsSlot(a, d) => d = a.start  BY <1>1 DEF IsSlot
  <2> QED  BY <1>0, <1>1, <2>1, <2>2 DEF Tidy, Placed
<1>2. CASE hasIncrement(a)
  <2> DEFINE n == s.next
             m == r.next
  <2>1. /\ n \in Nat /\ Placed(a, n) /\ (s.valid => n <= a.finish)
        /\ m = Beyond(a, n, t) /\ (r.valid <=> s.valid /\ m <= a.finish)
    BY <1>2 DEF Requeues, Tidy
  <2> HIDE DEF m, n
  <2>2. /\ m \in Nat /\ Placed(a, m) /\ m > t /\ m >= n
        /\ t < n => m = n
        /\ \A d \in Nat : Placed(a, d) /\ t < d /\ n <= d => m <= d
    BY <1>2, <2>1, BeyondIsFirst, Zenon
  <2>3. \A d \in Nat : IsSlot(a, d) => Placed(a, d) /\ d <= a.finish  BY SlotIs
  <2>4. Tidy(a, r)  BY <2>1, <2>2 DEF Tidy, m
  <2>5. ASSUME NEW d \in Nat, IsSlot(a, d), t < d
        PROVE  r.valid /\ m <= d <=> s.valid /\ n <= d
    <3>1. Placed(a, d) /\ d <= a.finish  BY <2>3, <2>5
    <3>2. n <= d => m <= d /\ m <= a.finish  BY <1>0, <2>2, <2>5, <3>1
    <3>3. m <= d => n <= d  BY <2>1, <2>2
    <3> QED  BY <2>1, <3>2, <3>3
  <2>6. r.valid => s.valid /\ t < m /\ t < a.finish  BY <1>0, <2>1, <2>2
  <2>7. s.valid /\ n = a.start /\ t < a.start => r.valid /\ m = a.start  BY <1>0, <2>1, <2>2
  <2> QED  BY <2>4, <2>5, <2>6, <2>7 DEF m, n
<1> QED  BY <1>1, <1>2

\* What do_requeue_time_attrs does to attribute i: it starts again from the
\* first slot, or goes on.
LEMMA RequeueResult ==
    ASSUME InDayOrder, NEW at, Sound(at), NEW t \in 0 .. Day - 1, NEW again \in BOOLEAN,
           NEW rel \in BOOLEAN, NEW i \in Index,
           NEW s, s.valid <=> again \/ at[i].valid,
           s.next = IF again THEN Attrs[i].start ELSE at[i].next
    PROVE  Requeues(Attrs[i], s, do_requeue_time_attrs(at, t, again, rel)[i], t)
PROOF
<1> DEFINE a == Attrs[i]
           s1 == IF rel THEN [at[i] EXCEPT !.elapsed = 0] ELSE at[i]
           s0 == IF again THEN [s1 EXCEPT !.valid = TRUE, !.next = a.start] ELSE s1
           r == requeue(a, s1, t, again)
           new == do_requeue_time_attrs(at, t, again, rel)[i]
<1>0. a \in Attribute /\ at[i] \in AttrState /\ ~a.relative /\ a.start \in Nat
  BY AttrTypes DEF Sound, InDayOrder, Attribute
<1>1. new = [r EXCEPT !.free = FALSE]  BY DEF do_requeue_time_attrs
<1>2. s1 \in AttrState /\ s1.next = at[i].next /\ s1.valid = at[i].valid
  <2>1. 0 \in 0 .. Day  BY AttrTypes
  <2> QED  BY <1>0, <2>1 DEF AttrState
<1>3. duration(a, s1, t) = t  BY <1>0 DEF duration
<1> HIDE DEF s1, a
<1>4. s0 \in AttrState /\ s0.next = s.next /\ (s0.valid <=> s.valid)
  BY <1>0, <1>2 DEF AttrState, a
<1> DEFINE n == Beyond(a, s0.next, t)
           q == IF n > a.finish THEN None ELSE IF a.relative THEN s0.requeued ELSE t
<1>5. CASE ~hasIncrement(a)
  <2>1. r = [s0 EXCEPT !.valid = s0.valid /\ t < a.start]  BY <1>3, <1>5 DEF requeue
  <2> HIDE DEF s0, r
  <2>2. r.next = s0.next /\ (r.valid <=> s0.valid /\ t < a.start) /\ "free" \in DOMAIN r
    BY <1>4, <2>1 DEF AttrState
  <2>3. new.next = r.next /\ new.valid = r.valid  BY <1>1, <2>2
  <2> HIDE DEF new
  <2> QED  BY <1>4, <1>5, <2>2, <2>3 DEF Requeues, a, new
<1>6. CASE hasIncrement(a)
  <2>1. r = [s0 EXCEPT !.next = n, !.valid = s0.valid /\ n <= a.finish, !.requeued = q]
    BY <1>3, <1>6 DEF requeue
  <2> HIDE DEF s0, r, n, q
  <2>2. r.next = n /\ (r.valid <=> s0.valid /\ n <= a.finish)
    BY <1>4, <2>1 DEF AttrState
  <2>3. new.next = r.next /\ new.valid = r.valid  BY <1>1
  <2> HIDE DEF new
  <2> QED  BY <1>4, <1>6, <2>2, <2>3 DEF Requeues, a, new, n
<1> QED  BY <1>5, <1>6

LEMMA IndexTypes ==
    ASSUME NEW i \in Index
    PROVE  /\ i \in Nat /\ Attrs[i] \in Attribute /\ Attrs[i].start <= Attrs[i].finish
           /\ Attrs[i].start \in Nat /\ Attrs[i].finish \in 0 .. Day - 1 /\ Attrs[i].incr \in Nat
PROOF BY AttrTypes DEF Attribute

\* A slot belongs to one attribute only.
LEMMA SlotsApart ==
    ASSUME InDayOrder, NEW i \in Index, NEW j \in Index, NEW d \in Nat,
           IsSlot(Attrs[i], d), IsSlot(Attrs[j], d)
    PROVE  i = j
PROOF
<1>1. /\ Attrs[i].start <= d /\ d <= Attrs[i].finish
      /\ Attrs[j].start <= d /\ d <= Attrs[j].finish
  BY IndexTypes, SlotIs
<1>2. i < j => Attrs[i].finish < Attrs[j].start  BY DEF InDayOrder
<1>3. j < i => Attrs[j].finish < Attrs[i].start  BY DEF InDayOrder
<1> QED  BY <1>1, <1>2, <1>3, IndexTypes

LEMMA TracksSame ==
    ASSUME NEW at, NEW new, NEW f, NEW e, Tracks(at, f, e),
           \A i \in Index : new[i].valid = at[i].valid /\ new[i].next = at[i].next
    PROVE  Tracks(new, f, e)
PROOF BY DEF Tracks, Tidy, Agrees, OneAfterAnother

\* The first slot of every attribute lies ahead, as after midnight.
LEMMA TracksFresh ==
    ASSUME NEW at, \A i \in Index : at[i].valid /\ at[i].next = Attrs[i].start
    PROVE  Tracks(at, 0, {}) /\ \A i \in Index : Tidy(Attrs[i], at[i])
PROOF
<1>1. ASSUME NEW i \in Index
      PROVE  /\ Tidy(Attrs[i], at[i]) /\ Agrees(Attrs[i], at[i], 0, {})
             /\ at[i].valid => 0 <= at[i].next
  <2>1. Attrs[i].start = Attrs[i].start + 0 * Attrs[i].incr /\ 0 \in Nat  BY IndexTypes
  <2>2. Placed(Attrs[i], Attrs[i].start)  BY <2>1 DEF Placed
  <2>3. Tidy(Attrs[i], at[i])  BY <2>2, IndexTypes DEF Tidy
  <2>4. ASSUME NEW d \in 0 .. Day, IsSlot(Attrs[i], d)  PROVE Attrs[i].start <= d
    <3>1. d \in Nat  BY AttrTypes
    <3> QED  BY <2>4, <3>1, IndexTypes, SlotIs
  <2> QED  BY <2>3, <2>4, IndexTypes DEF Agrees
<1> QED  BY <1>1 DEF Tracks, OneAfterAnother

\* A re-queue at time t keeps track of the slots after t.
LEMMA TracksRequeued ==
    ASSUME InDayOrder, NEW at, NEW new, NEW t \in Nat, NEW e, OneAfterAnother(at),
           \A i \in Index : /\ Tidy(Attrs[i], at[i]) /\ Agrees(Attrs[i], at[i], t + 1, e)
                            /\ Requeues(Attrs[i], at[i], new[i], t)
    PROVE  Tracks(new, t + 1, e)
PROOF
<1>1. ASSUME NEW i \in Index
      PROVE  /\ Tidy(Attrs[i], new[i])
             /\ new[i].valid => at[i].valid /\ t < new[i].next /\ t < Attrs[i].finish
             /\ at[i].valid /\ at[i].next = Attrs[i].start /\ t < Attrs[i].start
                    => new[i].valid /\ new[i].next = Attrs[i].start
             /\ \A d \in Nat : IsSlot(Attrs[i], d) /\ t < d =>
                    (new[i].valid /\ new[i].next <= d <=> at[i].valid /\ at[i].next <= d)
  BY IndexTypes, RequeuesKeeps
<1>2. ASSUME NEW i \in Index
      PROVE  Agrees(Attrs[i], new[i], t + 1, e) /\ (new[i].valid => t + 1 <= new[i].next)
  <2>1. \A d \in t + 1 .. Day : d \in Nat /\ t < d  BY AttrTypes
  <2>2. new[i].next \in Nat  BY <1>1 DEF Tidy
  <2>3. new[i].valid => t + 1 <= new[i].next  BY <1>1, <2>2
  <2> QED  BY <1>1, <2>1, <2>3 DEF Agrees
<1>3. OneAfterAnother(new)
  <2> SUFFICES ASSUME NEW i \in Index, NEW j \in Index, i < j, new[i].valid
               PROVE  new[j].valid /\ new[j].next = Attrs[j].start
    BY DEF OneAfterAnother
  <2>1. at[i].valid /\ t < Attrs[i].finish  BY <1>1
  <2>2. Attrs[i].finish < Attrs[j].start  BY DEF InDayOrder
  <2>3. t < Attrs[j].start  BY <2>1, <2>2, IndexTypes
  <2>4. at[j].valid /\ at[j].next = Attrs[j].start  BY <2>1 DEF OneAfterAnother
  <2> QED  BY <1>1, <2>3, <2>4
<1> QED  BY <1>1, <1>2, <1>3 DEF Tracks

\* A re-queue that starts again brings all later slots back; one that goes on
\* keeps those that were left.
LEMMA TracksRequeue ==
    ASSUME InDayOrder, NEW at, Sound(at), NEW t \in 0 .. Day - 1, NEW f \in Nat, f <= t + 1,
           NEW e \in SUBSET Int, Tracks(at, f, e), NEW again \in BOOLEAN, NEW rel \in BOOLEAN,
           NEW e2 \in SUBSET Int,
           IF again THEN \A d \in e2 : d <= t ELSE e2 = e
    PROVE  Tracks(do_requeue_time_attrs(at, t, again, rel), t + 1, e2)
PROOF
<1> DEFINE new == do_requeue_time_attrs(at, t, again, rel)
           old == [i \in Index |-> [valid |-> again \/ at[i].valid,
                                    next |-> IF again THEN Attrs[i].start ELSE at[i].next]]
<1>0. t \in Nat  BY AttrTypes
<1>1. \A i \in Index : /\ old[i].valid <=> again \/ at[i].valid
                       /\ old[i].next = IF again THEN Attrs[i].start ELSE at[i].next
  OBVIOUS
<1>2. \A i \in Index : Requeues(Attrs[i], old[i], new[i], t)
  <2> HIDE DEF old, new
  <2> QED  BY <1>1, RequeueResult DEF new
<1> HIDE DEF old, new
<1>3. CASE again
  <2>1. \A i \in Index : old[i].valid /\ old[i].next = Attrs[i].start  BY <1>1, <1>3
  <2>2. Tracks(old, 0, {}) /\ \A i \in Index : Tidy(Attrs[i], old[i])  BY <2>1, TracksFresh
  <2>3. \A i \in Index : Agrees(Attrs[i], old[i], t + 1, e2)
    <3> SUFFICES ASSUME NEW i \in Index, NEW d \in t + 1 .. Day, IsSlot(Attrs[i], d)
                 PROVE  d \in e2 <=> ~(old[i].valid /\ old[i].next <= d)
      BY DEF Agrees
    <3>1. d \in 0 .. Day /\ d > t  BY <1>0, AttrTypes
    <3>2. old[i].valid /\ old[i].next <= d  BY <2>2, <3>1 DEF Tracks, Agrees
    <3>3. d \notin e2  BY <1>0, <1>3, <3>1
    <3> QED  BY <3>2, <3>3
  <2>4. OneAfterAnother(old)  BY <2>2 DEF Tracks
  <2>5. Tracks(new, t + 1, e2)  BY <1>0, <1>2, <2>2, <2>3, <2>4, TracksRequeued
  <2> QED  BY <2>5 DEF new
<1>4. CASE ~again
  <2>1. \A i \in Index : (old[i].valid <=> at[i].valid) /\ old[i].next = at[i].next  BY <1>1, <1>4
  <2>2. \A i \in Index : Tidy(Attrs[i], old[i])  BY <2>1 DEF Tracks, Tidy
  <2>3. \A i \in Index : Agrees(Attrs[i], old[i], t + 1, e2)
    <3>1. \A d \in t + 1 .. Day : d \in f .. Day  BY <1>0, AttrTypes
    <3> QED  BY <1>4, <2>1, <3>1 DEF Tracks, Agrees
  <2>4. OneAfterAnother(old)  BY <2>1 DEF Tracks, OneAfterAnother
  <2>5. Tracks(new, t + 1, e2)  BY <1>0, <1>2, <2>2, <2>3, <2>4, TracksRequeued
  <2> QED  BY <2>5 DEF new
<1> QED  BY <1>3, <1>4

\* A suite begun at time t may run a slot at t.
LEMMA TracksReset ==
    ASSUME InDayOrder, NEW t \in 0 .. Day - 1, NEW at,
           \A i \in Index : at[i] = reset(Attrs[i], [free |-> FALSE, valid |-> TRUE,
                                    next |-> Attrs[i].start, requeued |-> None, elapsed |-> 0], t)
    PROVE  Tracks(at, t, {})
PROOF
<1> DEFINE s0(i) == [free |-> FALSE, valid |-> TRUE, next |-> Attrs[i].start,
                     requeued |-> None, elapsed |-> 0]
           n(i) == IF hasIncrement(Attrs[i]) THEN Beyond(Attrs[i], Attrs[i].start, t - 1)
                   ELSE Attrs[i].start
           v(i) == IF hasIncrement(Attrs[i]) THEN n(i) <= Attrs[i].finish ELSE t <= Attrs[i].start
<1>1. ASSUME NEW i \in Index
      PROVE  at[i].next = n(i) /\ at[i].valid = v(i)
  <2> DEFINE r == resetOnly(Attrs[i], s0(i))
             q == IF hasIncrement(Attrs[i]) /\ ~Attrs[i].relative THEN t ELSE s0(i).requeued
  <2>1. r \in AttrState
    <3>1. s0(i) \in AttrState  BY AttrTypes, IndexTypes DEF AttrState
    <3>2. r = [s0(i) EXCEPT !.valid = TRUE, !.next = Attrs[i].start, !.elapsed = 0]
      BY DEF resetOnly
    <3>3. 0 \in 0 .. Day  BY AttrTypes
    <3> HIDE DEF s0, r
    <3> QED  BY <3>1, <3>2, <3>3, IndexTypes DEF AttrState
  <2>2. duration(Attrs[i], r, t) = t  BY DEF duration, InDayOrder
  <2>3. at[i] = reset(Attrs[i], s0(i), t)  OBVIOUS
  <2>4. at[i] = [r EXCEPT !.next = n(i), !.valid = v(i), !.requeued = q]
    BY <2>2, <2>3 DEF reset
  <2> HIDE DEF r, n, v, q, s0
  <2> QED  BY <2>1, <2>4 DEF AttrState
<1>2. t \in Nat  BY AttrTypes
<1>3. CASE t = 0
  <2>1. \A i \in Index : at[i].valid /\ at[i].next = Attrs[i].start
    <3> TAKE i \in Index
    <3>1. n(i) = Attrs[i].start  BY <1>3, IndexTypes DEF Beyond
    <3>2. v(i)
      <4> HIDE DEF n
      <4> QED  BY <1>3, <3>1, IndexTypes
    <3> QED  BY <1>1, <3>1, <3>2
  <2> QED  BY <1>3, <2>1, TracksFresh
<1>4. CASE t > 0
  <2> DEFINE old == [i \in Index |-> s0(i)]
  <2>1. \A i \in Index : old[i].valid /\ old[i].next = Attrs[i].start  OBVIOUS
  <2>2. \A i \in Index : Requeues(Attrs[i], old[i], at[i], t - 1)
    <3> TAKE i \in Index
    <3>1. old[i].valid /\ old[i].next = Attrs[i].start  BY <2>1
    <3>2. t <= Attrs[i].start <=> t - 1 < Attrs[i].start  BY <1>2, IndexTypes
    <3> HIDE DEF old
    <3> QED  BY <1>1, <3>1, <3>2 DEF Requeues
  <2> HIDE DEF old
  <2>3. Tracks(old, 0, {}) /\ \A i \in Index : Tidy(Attrs[i], old[i])  BY <2>1, TracksFresh
  <2>4. t - 1 \in Nat /\ (t - 1) + 1 = t  BY <1>2, <1>4
  <2>5. \A i \in Index : Agrees(Attrs[i], old[i], t, {})
    <3>1. \A d \in t .. Day : d \in 0 .. Day  BY <1>2, AttrTypes
    <3> QED  BY <2>3, <3>1 DEF Tracks, Agrees
  <2>6. OneAfterAnother(old)  BY <2>3 DEF Tracks
  <2>7. Tracks(at, (t - 1) + 1, {})  BY <2>2, <2>3, <2>4, <2>5, <2>6, TracksRequeued
  <2> QED  BY <2>4, <2>7
<1> QED  BY <1>2, <1>3, <1>4

\* When an attribute matches, no later slot of the day has been run early.
LEMMA FreeIsFirst ==
    ASSUME InDayOrder, NEW at, Sound(at), NEW f \in Nat, NEW e, Tracks(at, f, e),
           NEW t \in 0 .. Day - 1, f <= t, NEW i \in Index, isFree(Attrs[i], at[i], t)
    PROVE  /\ IsSlot(Attrs[i], t) /\ t \notin e /\ at[i].valid /\ t <= Attrs[i].finish
           /\ \A d \in e, j \in Index : d \in 0 .. Day /\ IsSlot(Attrs[j], d) => d <= t
PROOF
<1>0. t \in 0 .. Day /\ t \in f .. Day /\ t \in Nat  BY AttrTypes
<1>1. duration(Attrs[i], at[i], t) = t  BY DEF duration, InDayOrder
<1>2. IsSlot(Attrs[i], t)
  <2>1. Attrs[i] \in Attribute /\ at[i] \in AttrState /\ Grid(Attrs[i], at[i])
    BY AttrTypes DEF Sound
  <2> QED  BY <1>1, <2>1, FreeAtSlot
<1>3. Attrs[i].start <= t /\ t <= Attrs[i].finish  BY <1>0, <1>2, IndexTypes, SlotIs
<1>4. at[i].valid /\ at[i].next <= t
  <2>0. Tidy(Attrs[i], at[i])  BY DEF Tracks
  <2>1. CASE hasIncrement(Attrs[i])
    <3>1. at[i].valid /\ OnGrid(Attrs[i], at[i].next, t)  BY <1>1, <2>1 DEF isFree
    <3>2. PICK k \in 0 .. Day : t = at[i].next + k * Attrs[i].incr  BY <3>1 DEF OnGrid
    <3>3. k \in Nat  BY AttrTypes
    <3>4. k * Attrs[i].incr \in Nat  BY <3>3, IndexTypes, Products
    <3> QED  BY <1>0, <2>0, <3>1, <3>2, <3>4 DEF Tidy
  <2>2. CASE ~hasIncrement(Attrs[i])
    <3>1. at[i].next = Attrs[i].start  BY <2>0, <2>2 DEF Tidy, Placed
    <3> QED  BY <1>1, <1>3, <2>2, <3>1, IndexTypes DEF isFree
  <2> QED  BY <2>1, <2>2
<1>5. t \notin e  BY <1>0, <1>2, <1>4 DEF Tracks, Agrees
<1>6. ASSUME NEW d \in e, NEW j \in Index, d \in 0 .. Day, IsSlot(Attrs[j], d), ~(d <= t)
      PROVE  FALSE
  <2>0. d \in Nat /\ t < d /\ d \in f .. Day  BY <1>0, <1>6
  <2>1. Attrs[j].start <= d /\ d <= Attrs[j].finish  BY <1>6, <2>0, IndexTypes, SlotIs
  <2>2. ~(at[j].valid /\ at[j].next <= d)  BY <1>6, <2>0 DEF Tracks, Agrees
  <2>3. at[i].next \in Nat  BY DEF Tracks, Tidy
  <2>4. j # i  BY <1>0, <1>4, <2>0, <2>2, <2>3
  <2>5. ~(i < j)
    <3>1. i < j => at[j].valid /\ at[j].next = Attrs[j].start
      BY <1>4 DEF Tracks, OneAfterAnother
    <3> QED  BY <2>1, <2>2, <3>1
  <2>6. ~(j < i)
    <3>1. j < i => Attrs[j].finish < Attrs[i].start  BY DEF InDayOrder
    <3> QED  BY <1>3, <2>0, <2>1, <3>1, IndexTypes
  <2> QED  BY <2>4, <2>5, <2>6, IndexTypes
<1> QED  BY <1>2, <1>3, <1>4, <1>5, <1>6

\* A slot that is left makes its attribute match when it comes.
LEMMA SlotFrees ==
    ASSUME InDayOrder, NEW at, NEW f \in Nat, NEW e, Tracks(at, f, e),
           NEW t \in 0 .. Day - 1, f <= t, t \notin e, NEW i \in Index, IsSlot(Attrs[i], t)
    PROVE  isFree(Attrs[i], at[i], t)
PROOF
<1> DEFINE a == Attrs[i]
           n == at[i].next
<1>0. t \in f .. Day /\ t \in Nat  BY AttrTypes
<1>1. at[i].valid /\ n <= t  BY <1>0 DEF Tracks, Agrees
<1>2. duration(a, at[i], t) = t  BY DEF duration, InDayOrder
<1>3. n \in Nat /\ Placed(a, n)  BY DEF Tracks, Tidy
<1>4. Placed(a, t) /\ a.start <= t /\ t <= a.finish  BY <1>0, IndexTypes, SlotIs
<1>5. CASE ~hasIncrement(a)
  <2>1. t = a.start  BY <1>4, <1>5 DEF Placed
  <2> QED  BY <1>1, <1>2, <1>5, <2>1 DEF isFree
<1>6. CASE hasIncrement(a)
  <2>0. a \in Attribute /\ a.incr \in Nat /\ a.incr > 0 /\ Day \in Nat
    BY <1>6, IndexTypes, AttrTypes DEF hasIncrement
  <2> HIDE DEF n, a
  <2>1. CASE n = t
    <3>1. t = n + 0 * a.incr /\ 0 \in 0 .. Day  BY <1>0, <2>0, <2>1
    <3>2. OnGrid(a, n, t)  BY <3>1 DEF OnGrid
    <3> QED  BY <1>1, <1>2, <1>4, <1>6, <3>2 DEF isFree, n, a
  <2>2. CASE n < t
    <3>1. PICK k \in Nat : t = n + k * a.incr  BY <1>0, <1>3, <1>4, <1>6, <2>0, <2>2, PlacedApart
    <3>2. k <= k * a.incr /\ k * a.incr \in Nat  BY <2>0, Products
    <3>3. k \in 0 .. Day  BY <1>0, <1>3, <2>0, <3>1, <3>2
    <3>4. OnGrid(a, n, t)  BY <3>1, <3>3 DEF OnGrid
    <3> QED  BY <1>1, <1>2, <1>4, <1>6, <3>4 DEF isFree, n, a
  <2> QED  BY <1>0, <1>1, <1>3, <2>1, <2>2
<1> QED  BY <1>5, <1>6

\* The slots a user may take are those some attribute will still match.
LEMMA OpenSlots ==
    ASSUME TypeOK, Tracks(attr, hist.from, hist.early), NEW d
    PROVE  d \in SlotsOpen <=>
               /\ d \in hist.from .. Day
               /\ \E i \in Index : IsSlot(Attrs[i], d) /\ attr[i].valid /\ attr[i].next <= d
PROOF BY DEF SlotsOpen, Tracks, Agrees

\* The next slot of the first valid attribute is the first open one.
LEMMA FirstIsOpen ==
    ASSUME InDayOrder, TypeOK, Tracks(attr, hist.from, hist.early), NEW i \in Index,
           First(i, {j \in Index : attr[j].valid})
    PROVE  /\ attr[i].valid /\ attr[i].next \in SlotsOpen /\ IsSlot(Attrs[i], attr[i].next)
           /\ \A d \in SlotsOpen : attr[i].next <= d
PROOF
<1>0. hist.from \in Nat /\ hist.from <= Day /\ Day \in Nat  BY AttrTypes DEF TypeOK
<1>1. attr[i].valid /\ \A j \in Index : j < i => ~attr[j].valid
  <2>1. i \in {j \in Index : attr[j].valid}  BY DEF First
  <2>2. ASSUME NEW j \in Index, j < i  PROVE ~attr[j].valid
    <3>1. j \in 1 .. i - 1  BY <2>2, AttrTypes
    <3>2. Attrs[j].kind = Attrs[i].kind  BY DEF InDayOrder
    <3> QED  BY <3>1, <3>2 DEF First
  <2> QED  BY <2>1, <2>2
<1>2. /\ attr[i].next \in Nat /\ Placed(Attrs[i], attr[i].next)
      /\ attr[i].next <= Attrs[i].finish /\ hist.from <= attr[i].next
  BY <1>1 DEF Tracks, Tidy
<1>3. IsSlot(Attrs[i], attr[i].next) /\ attr[i].next \in 0 .. Day
  BY <1>2, IndexTypes, PlacedIsSlot
<1>4. attr[i].next \in SlotsOpen
  <2>1. attr[i].next \in hist.from .. Day  BY <1>0, <1>2, <1>3
  <2> QED  BY <1>1, <1>2, <1>3, <2>1, OpenSlots
<1>5. ASSUME NEW d \in SlotsOpen  PROVE attr[i].next <= d
  <2>1. d \in hist.from .. Day /\ d \in Nat  BY <1>0, OpenSlots
  <2>2. PICK j \in Index : IsSlot(Attrs[j], d) /\ attr[j].valid /\ attr[j].next <= d  BY OpenSlots
  <2>3. ~(j < i)  BY <1>1, <2>2
  <2>4. CASE i < j
    <3>1. Attrs[j].start <= d  BY <2>1, <2>2, IndexTypes, SlotIs
    <3>2. Attrs[i].finish < Attrs[j].start  BY <2>4 DEF InDayOrder
    <3> QED  BY <1>2, <2>1, <3>1, <3>2, IndexTypes
  <2>5. CASE i = j  BY <2>2, <2>5
  <2> QED  BY <2>3, <2>4, <2>5, IndexTypes
<1> QED  BY <1>1, <1>3, <1>4, <1>5

\* Conversely, the first open slot is the next one of the first valid attribute.
LEMMA OpenIsFirst ==
    ASSUME InDayOrder, TypeOK, Tracks(attr, hist.from, hist.early),
           NEW d \in SlotsOpen, \A e \in SlotsOpen : d <= e
    PROVE  \E i \in Index : First(i, {j \in Index : attr[j].valid}) /\ attr[i].next = d
PROOF
<1>0. hist.from \in Nat /\ hist.from <= Day /\ Day \in Nat  BY AttrTypes DEF TypeOK
<1>1. d \in hist.from .. Day /\ d \in Nat  BY <1>0, OpenSlots
<1>2. PICK i \in Index : IsSlot(Attrs[i], d) /\ attr[i].valid /\ attr[i].next <= d  BY OpenSlots
<1>3. ASSUME NEW j \in Index, attr[j].valid
      PROVE  attr[j].next \in SlotsOpen /\ attr[j].next \in Nat /\ attr[j].next <= Attrs[j].finish
  <2>1. /\ attr[j].next \in Nat /\ Placed(Attrs[j], attr[j].next)
        /\ attr[j].next <= Attrs[j].finish /\ hist.from <= attr[j].next
    BY <1>3 DEF Tracks, Tidy
  <2>2. IsSlot(Attrs[j], attr[j].next) /\ attr[j].next \in 0 .. Day
    BY <2>1, IndexTypes, PlacedIsSlot
  <2>3. attr[j].next \in hist.from .. Day  BY <1>0, <2>1, <2>2
  <2> QED  BY <1>3, <2>1, <2>2, <2>3, OpenSlots
<1>4. attr[i].next = d
  <2>1. d <= attr[i].next /\ attr[i].next \in Nat  BY <1>2, <1>3
  <2> QED  BY <1>1, <1>2, <2>1
<1>5. \A j \in 1 .. i - 1 : j \notin {l \in Index : attr[l].valid}
  <2> SUFFICES ASSUME NEW j \in 1 .. i - 1, j \in Index, attr[j].valid  PROVE FALSE
    OBVIOUS
  <2>1. d <= attr[j].next /\ attr[j].next <= Attrs[j].finish /\ attr[j].next \in Nat  BY <1>3
  <2>2. j < i  BY IndexTypes
  <2>3. Attrs[j].finish < Attrs[i].start  BY <2>2 DEF InDayOrder
  <2>4. Attrs[i].start <= d  BY <1>1, <1>2, IndexTypes, SlotIs
  <2> QED  BY <1>1, <2>1, <2>3, <2>4, IndexTypes
<1> QED  BY <1>2, <1>4, <1>5 DEF First

\* A user who runs the task takes the first open slot away, and no other.
LEMMA TracksMiss ==
    ASSUME InDayOrder, TypeOK, Sound(attr), Tracks(attr, hist.from, hist.early),
           hist.taken <=> task.flag
    PROVE  Tracks(miss(attr), hist.from, Early)
PROOF
<1>1. CASE task.flag  BY <1>1 DEF miss, Early
<1>2. CASE ~task.flag
  <2> DEFINE V == {j \in Index : attr[j].valid}
             new == miss(attr)
             from == hist.from
  <2>0. from \in Nat /\ Day \in Nat /\ \A d \in from .. Day : d \in Nat  BY AttrTypes DEF TypeOK
  <2>1. new = [i \in Index |-> IF First(i, V) THEN miss_next_time_slot(Attrs[i], attr[i])
                               ELSE attr[i]]
    BY <1>2 DEF miss
  <2>2. Early = hist.early \cup {d \in SlotsOpen : \A e \in SlotsOpen : d <= e}
    BY <1>2 DEF Early
  <2> HIDE DEF new
  <2>3. ASSUME NEW i \in Index, ~First(i, V)
        PROVE  /\ new[i] = attr[i] /\ Tidy(Attrs[i], new[i])
               /\ Agrees(Attrs[i], new[i], from, Early)
               /\ new[i].valid => from <= new[i].next
    <3>1. new[i] = attr[i]  BY <2>1, <2>3
    <3>2. ASSUME NEW d \in from .. Day, IsSlot(Attrs[i], d)
          PROVE  d \in Early <=> d \in hist.early
      <4> SUFFICES ASSUME d \in SlotsOpen, \A e \in SlotsOpen : d <= e  PROVE FALSE
        BY <2>2
      <4>1. PICK j \in Index : First(j, V) /\ attr[j].next = d  BY OpenIsFirst
      <4>2. IsSlot(Attrs[j], d)  BY <4>1, FirstIsOpen
      <4>3. i = j  BY <2>0, <3>2, <4>2, SlotsApart
      <4> QED  BY <2>3, <4>1, <4>3
    <3> QED  BY <3>1, <3>2 DEF Tracks, Agrees
  <2>4. ASSUME NEW i \in Index, First(i, V)
        PROVE  /\ attr[i].valid /\ Tidy(Attrs[i], new[i])
               /\ Agrees(Attrs[i], new[i], from, Early)
               /\ new[i].valid => from <= new[i].next
    <3> DEFINE a == Attrs[i]
               n == attr[i].next
    <3>0. attr[i] \in AttrState /\ new[i] = miss_next_time_slot(a, attr[i])
      BY <2>1, <2>4 DEF Sound
    <3>1. attr[i].valid /\ n \in SlotsOpen /\ IsSlot(a, n) /\ \A d \in SlotsOpen : n <= d
      BY <2>4, FirstIsOpen
    <3>2. n \in Nat /\ Placed(a, n) /\ n <= a.finish /\ from <= n  BY <3>1 DEF Tracks, Tidy
    <3>3. ASSUME NEW d \in from .. Day, IsSlot(a, d)
          PROVE  d \in Early <=> ~(n < d)
      <4>1. d \in hist.early <=> ~(n <= d)  BY <3>1, <3>3 DEF Tracks, Agrees
      <4>2. d \in SlotsOpen /\ (\A e \in SlotsOpen : d <= e) <=> d = n
        <5>1. \A x \in SlotsOpen : x \in Nat  BY <2>0, OpenSlots
        <5>2. d \in SlotsOpen /\ (\A e \in SlotsOpen : d <= e) => d = n
          <6> SUFFICES ASSUME d \in SlotsOpen, \A e \in SlotsOpen : d <= e  PROVE d = n
            OBVIOUS
          <6>1. d <= n /\ n <= d /\ d \in Nat  BY <3>1, <5>1
          <6> QED  BY <3>2, <6>1
        <5>3. d = n => d \in SlotsOpen /\ (\A e \in SlotsOpen : d <= e)  BY <3>1
        <5> QED  BY <5>2, <5>3
      <4> QED  BY <2>0, <2>2, <3>2, <4>1, <4>2
    <3>4. CASE ~hasIncrement(a)
      <4>1. new[i] = [attr[i] EXCEPT !.valid = FALSE]  BY <3>0, <3>4 DEF miss_next_time_slot
      <4>2. new[i].valid = FALSE /\ new[i].next = n  BY <3>0, <4>1 DEF AttrState
      <4>3. \A d \in from .. Day : IsSlot(a, d) => d = n
        BY <3>2, <3>4 DEF IsSlot, Placed
      <4>4. Agrees(a, new[i], from, Early)  BY <3>2, <3>3, <4>2, <4>3 DEF Agrees
      <4>5. Tidy(a, new[i])  BY <3>2, <4>2 DEF Tidy
      <4> QED  BY <3>1, <4>2, <4>4, <4>5
    <3>5. CASE hasIncrement(a)
      <4> DEFINE m == n + a.incr
      <4>1. new[i] = [attr[i] EXCEPT !.next = m, !.valid = attr[i].valid /\ m <= a.finish]
        BY <3>0, <3>5 DEF miss_next_time_slot
      <4>2. m \in Nat /\ n <= m /\ n < m
        BY <3>2, <3>5, IndexTypes DEF hasIncrement
      <4> HIDE DEF m
      <4>3. new[i].next = m /\ (new[i].valid <=> m <= a.finish)
        BY <3>0, <3>1, <4>1 DEF AttrState
      <4>4. Placed(a, m)
        <5>1. PICK k \in Nat : n = a.start + k * a.incr  BY <3>2, <3>5 DEF Placed
        <5>2. \A x, y \in Nat : x + k * y + y = x + (k + 1) * y  BY OneMore
        <5>3. a.start + k * a.incr + a.incr = a.start + (k + 1) * a.incr
          BY <5>2, IndexTypes, Zenon
        <5>4. m = a.start + (k + 1) * a.incr  BY <5>1, <5>3, Zenon DEF m
        <5>5. k + 1 \in Nat  OBVIOUS
        <5> HIDE DEF a
        <5> QED  BY <3>5, <5>4, <5>5 DEF Placed
      <4>5. ASSUME NEW d \in from .. Day, IsSlot(a, d)
            PROVE  n < d <=> m <= d /\ m <= a.finish
        <5>1. d \in Nat /\ Placed(a, d) /\ d <= a.finish  BY <2>0, <4>5, IndexTypes, SlotIs
        <5>2. n < d => m <= d
          BY <3>2, <3>5, <5>1, IndexTypes, PlacedApart DEF m
        <5> QED  BY <3>2, <4>2, <5>1, <5>2, IndexTypes
      <4>6. Agrees(a, new[i], from, Early)  BY <3>3, <4>3, <4>5 DEF Agrees
      <4>7. Tidy(a, new[i])  BY <4>2, <4>3, <4>4 DEF Tidy
      <4>8. from <= new[i].next  BY <2>0, <3>2, <4>2, <4>3
      <4> QED  BY <3>1, <4>6, <4>7, <4>8
    <3> QED  BY <3>4, <3>5
  <2>5. OneAfterAnother(new)
    <3> SUFFICES ASSUME NEW i \in Index, NEW j \in Index, i < j, new[i].valid
                 PROVE  new[j].valid /\ new[j].next = Attrs[j].start
      BY DEF OneAfterAnother
    <3>1. attr[i].valid  BY <2>3, <2>4
    <3>2. ~First(j, V)
      <4>1. i \in 1 .. j - 1 /\ i \in V  BY <3>1, AttrTypes
      <4>2. Attrs[i].kind = Attrs[j].kind  BY DEF InDayOrder
      <4> QED  BY <4>1, <4>2 DEF First
    <3>3. new[j] = attr[j]  BY <2>3, <3>2
    <3> QED  BY <3>1, <3>3 DEF Tracks, OneAfterAnother
  <2>6. Tracks(new, from, Early)  BY <2>3, <2>4, <2>5 DEF Tracks
  <2> QED  BY <2>6 DEF new
<1> QED  BY <1>1, <1>2

AnyFree == \E i \in Index : attr[i].free

\* A minute of the server, in which the day may change.
Passes(changed) ==
    /\ \A i \in Index :
           /\ IF changed THEN attr'[i].valid /\ attr'[i].next = Attrs[i].start
              ELSE attr'[i].valid = attr[i].valid /\ attr'[i].next = attr[i].next
           /\ attr'[i].free <=> attr[i].free \/ isFree(Attrs[i], attr'[i], now')
    /\ hist'.from = IF changed THEN 0 ELSE hist.from
    /\ hist'.early = IF changed THEN {} ELSE hist.early
    /\ hist'.timed = hist.timed /\ hist'.taken = hist.taken /\ hist'.freed \subseteq hist.freed
    /\ task'.state = "queued" =>
           \A k \in Kinds : hist'.slots[k] = hist.slots[k] \cup SlotsNow(k, attr', now')
    /\ task' \in Generation(task, attr', now')
    /\ IF changed THEN Late \/ now = Day - 1 ELSE now < now' /\ (Late \/ now' = now + 1)

LEMMA TickIs ==
    ASSUME InDayOrder, Inv, Tick
    PROVE  \E changed \in BOOLEAN : Passes(changed)
PROOF
<1>0. TypeOK /\ Day \in Nat /\ now \in 0 .. Day - 1 /\ hist \in Histories
  <2>1. TypeOK  BY DEF Inv
  <2>2. now \in 0 .. Day - 1 /\ hist \in Histories  BY <2>1 DEF TypeOK, Histories
  <2> QED  BY <2>1, <2>2, AttrTypes
<1>1. PICK by \in 1 .. (IF Late THEN 2 ELSE 1) :
        LET t == (now + by) % Day
            dayChanged == now + by >= Day
            at == [i \in Index |-> attrChanged(Attrs[i], attr[i], t, by, dayChanged)]
        IN /\ now' = t
           /\ attr' = at
           /\ task' \in Generation(task, at, t)
           /\ hist' = [hist EXCEPT
                  !.slots = IF task'.state # "queued" THEN NoSlots
                            ELSE [k \in Kinds |-> hist.slots[k] \cup SlotsNow(k, at, t)],
                  !.freed = IF task'.state # "queued" THEN {} ELSE hist.freed,
                  !.early = IF dayChanged THEN {} ELSE hist.early,
                  !.overnight = task.state = "running" /\ (hist.overnight \/ dayChanged),
                  !.from = IF dayChanged THEN 0 ELSE hist.from, !.begun = FALSE]
           /\ UNCHANGED cmds
  BY DEF Tick
<1> DEFINE changed == now + by >= Day
           slots == IF task'.state # "queued" THEN NoSlots
                    ELSE [k \in Kinds |-> hist.slots[k] \cup SlotsNow(k, attr', now')]
           freed == IF task'.state # "queued" THEN {} ELSE hist.freed
           early == IF changed THEN {} ELSE hist.early
           overnight == task.state = "running" /\ (hist.overnight \/ changed)
           from == IF changed THEN 0 ELSE hist.from
<1>2. by \in 1 .. 2 /\ (~Late => by = 1) /\ changed \in BOOLEAN  OBVIOUS
<1>3. hist' = [hist EXCEPT !.slots = slots, !.freed = freed, !.early = early,
                           !.overnight = overnight, !.from = from, !.begun = FALSE]
  BY <1>1
<1>4. /\ hist'.from = from /\ hist'.early = early
      /\ hist'.timed = hist.timed /\ hist'.taken = hist.taken
      /\ hist'.slots = slots /\ hist'.freed = freed
  <2> HIDE DEF slots, freed, early, overnight, from
  <2> QED  BY <1>0, <1>3 DEF Histories
<1>5. attr' = [i \in Index |-> attrChanged(Attrs[i], attr[i], now', by, changed)]
      /\ task' \in Generation(task, attr', now')
  BY <1>1
<1>6. IF changed THEN Late \/ now = Day - 1 ELSE now < now' /\ (Late \/ now' = now + 1)
  <2>1. CASE changed  BY <1>0, <1>2, <2>1
  <2>2. CASE ~changed
    <3>1. now + by \in 0 .. Day - 1  BY <1>0, <1>2, <2>2
    <3>2. now' = now + by  BY <1>0, <1>1, <3>1
    <3> QED  BY <1>0, <1>2, <2>2, <3>2
  <2> QED  BY <2>1, <2>2
<1> HIDE DEF changed
<1>7. ASSUME NEW i \in Index
      PROVE  /\ IF changed THEN attr'[i].valid /\ attr'[i].next = Attrs[i].start
                ELSE attr'[i].valid = attr[i].valid /\ attr'[i].next = attr[i].next
             /\ attr'[i].free <=> attr[i].free \/ isFree(Attrs[i], attr'[i], now')
  <2> DEFINE a == Attrs[i]
             c == calendarChanged(a, attr[i], by, changed)
  <2>0. a \in Attribute /\ attr[i] \in AttrState /\ ~a.relative
    BY <1>0, AttrTypes DEF TypeOK, InDayOrder
  <2>1. /\ c.free = attr[i].free
        /\ IF changed THEN c.valid = TRUE /\ c.next = a.start
           ELSE c.valid = attr[i].valid /\ c.next = attr[i].next
    BY <2>0 DEF calendarChanged, AttrState
  <2>2. c \in AttrState  BY <1>2, <2>0, CalendarType
  <2>3. attr'[i] = [c EXCEPT !.free = c.free \/ isFree(a, c, now')]  BY <1>5 DEF attrChanged
  <2> HIDE DEF c
  <2>4. attr'[i].valid = c.valid /\ attr'[i].next = c.next /\ attr'[i].elapsed = c.elapsed
    BY <2>2, <2>3 DEF AttrState
  <2>5. attr'[i].free = (c.free \/ isFree(a, c, now'))
    <3>1. "free" \in DOMAIN c  BY <2>2 DEF AttrState
    <3> QED  BY <2>3, <3>1, Zenon
  <2>6. isFree(a, c, now') = isFree(a, attr'[i], now')
    <3>1. duration(a, attr'[i], now') = duration(a, c, now')  BY <2>4 DEF duration
    <3> QED  BY <2>4, <3>1 DEF isFree
  <2> QED  BY <2>1, <2>4, <2>5, <2>6
<1>8. task'.state = "queued" =>
          \A k \in Kinds : hist'.slots[k] = hist.slots[k] \cup SlotsNow(k, attr', now')
  BY <1>4
<1>9. Passes(changed)
  <2>1. freed \subseteq hist.freed  OBVIOUS
  <2> HIDE DEF slots, freed, overnight
  <2> QED  BY <1>4, <1>5, <1>6, <1>7, <1>8, <2>1 DEF Passes
<1> QED  BY <1>2, <1>9

-----------------------------------------------------------------------------
(* The account of the slots that users ran early *)

AllSlots(S) == \A d \in S : \E i \in Index : IsSlot(Attrs[i], d)

Accounts ==
    /\ Inv
    /\ Tracks(attr, hist.from, hist.early)
    /\ hist.from <= now + 1
    /\ AllSlots(hist.early)
    /\ hist.taken <=> task.flag
    /\ task.state = "queued" => ~task.flag
    /\ (task.state \in {"running", "aborted"} /\ ~task.flag) \/ (task.state = "queued" /\ AnyFree) =>
           \A d \in hist.early : d <= now
    /\ task.state = "queued" =>
           /\ AnyFree => \A k \in Kinds : ~(hist.slots[k] \subseteq hist.early)
           /\ \A i \in Index : isFree(Attrs[i], attr[i], now) =>
                  hist.from <= now /\ now \in SlotsSince(Attrs[i].kind)

LEMMA HistoryFields ==
    ASSUME Inv
    PROVE  \A e \in SUBSET (0 .. Day), b \in BOOLEAN :
               /\ Left(e, b).from = hist.from /\ Left(e, b).early = e
               /\ Left(e, b).timed = hist.timed /\ Left(e, b).taken = b /\ Left(e, b).freed = {}
               /\ Enters(b, e).from = now + 1 /\ Enters(b, e).early = e /\ Enters(b, e).timed = b
               /\ Enters(b, e).slots = NoSlots /\ Enters(b, e).freed = {} /\ ~Enters(b, e).taken
PROOF
<1> TAKE e \in SUBSET (0 .. Day), b \in BOOLEAN
<1>1. hist \in Histories  BY DEF Inv, TypeOK, Histories
<1>2. ASSUME NEW t \in BOOLEAN
      PROVE  /\ Left(e, t) \in Histories /\ Left(e, t).from = hist.from /\ Left(e, t).early = e
             /\ Left(e, t).timed = hist.timed /\ Left(e, t).taken = t
             /\ Left(e, t).slots = NoSlots /\ Left(e, t).freed = {}
  <2>1. Left(e, t) \in Histories  BY HistoryTypes DEF Inv
  <2> QED  BY <1>1, <2>1 DEF Left, Histories
<1>3. /\ Left(e, FALSE) \in Histories /\ Left(e, FALSE).early = e /\ Left(e, FALSE).taken = FALSE
      /\ Left(e, FALSE).slots = NoSlots /\ Left(e, FALSE).freed = {}
  BY <1>2
<1>4. Enters(b, e) = [Left(e, FALSE) EXCEPT !.timed = b, !.from = now + 1]  BY DEF Enters
<1> QED  BY <1>2, <1>3, <1>4 DEF Histories

LEMMA EarlySlots ==
    ASSUME AllSlots(hist.early)
    PROVE  AllSlots(Early)
PROOF BY DEF AllSlots, Early, SlotsOpen

\* The task leaves the queue.
LEMMA AccountsLeave ==
    ASSUME Inv', task'.state # "queued", Tracks(attr', hist'.from, hist'.early),
           hist'.from <= now' + 1, AllSlots(hist'.early), hist'.taken <=> task'.flag,
           task'.state \in {"running", "aborted"} /\ ~task'.flag => \A d \in hist'.early : d <= now'
    PROVE  Accounts'
PROOF BY DEF Accounts, AllSlots, Tracks, Tidy, Agrees, OneAfterAnother

\* The task enters the queue.
LEMMA AccountsEnter ==
    ASSUME Inv', task'.state = "queued", ~task'.flag, ~hist'.taken, Tracks(attr', hist'.from, hist'.early),
           hist'.from <= now' + 1, AllSlots(hist'.early),
           \A i \in Index : ~attr'[i].free /\ ~isFree(Attrs[i], attr'[i], now')
    PROVE  Accounts'
PROOF
<1>1. Tracks(attr, hist.from, hist.early)'  BY DEF Tracks, Tidy, Agrees, OneAfterAnother
<1>2. ~AnyFree' /\ AllSlots(hist.early)'  BY DEF AnyFree, AllSlots
<1> QED  BY <1>1, <1>2 DEF Accounts

LEMMA AccountsCompletes ==
    ASSUME InDayOrder, Accounts, NEW at, Sound(at), NEW flag \in BOOLEAN, NEW inCmd \in BOOLEAN,
           NEW early \in SUBSET (0 .. Day), Tracks(at, hist.from, early), AllSlots(early),
           NEW taken \in BOOLEAN, taken <=> flag, ~flag => \A d \in early : d <= now,
           Completes(flag, at, inCmd, early, taken), now' = now, Inv'
    PROVE  Accounts'
PROOF
<1>0. /\ Inv /\ TypeOK /\ now \in 0 .. Day - 1 /\ Day \in Nat /\ hist.from \in Nat
      /\ hist.from <= now + 1 /\ early \in SUBSET Int /\ {} \in SUBSET Int /\ {} \in SUBSET (0 .. Day)
      /\ AllSlots({})
  BY AttrTypes DEF Accounts, Inv, TypeOK, AllSlots
<1>1. CASE /\ task' = [state |-> "queued", flag |-> FALSE, repeat |-> task.repeat - 1]
           /\ attr' = do_requeue_time_attrs(at, now, TRUE, TRUE)
           /\ hist' = Enters(FALSE, {})
  <2>1. hist'.from = now + 1 /\ hist'.early = {} /\ ~hist'.taken  BY <1>0, <1>1, HistoryFields
  <2>2. Tracks(attr', now + 1, {})  BY <1>0, <1>1, TracksRequeue
  <2>3. \A i \in Index : ~attr'[i].free /\ ~isFree(Attrs[i], attr'[i], now')
    BY <1>0, <1>1, RequeuedSound
  <2>4. task'.state = "queued" /\ ~task'.flag  BY <1>1
  <2> QED  BY <1>0, <2>1, <2>2, <2>3, <2>4, AccountsEnter
<1>2. CASE /\ task' = [state |-> "queued", flag |-> FALSE, repeat |-> task.repeat]
           /\ attr' = do_requeue_time_attrs(at, now, ~flag, FALSE)
           /\ hist' = Enters(TRUE, early)
  <2>1. hist'.from = now + 1 /\ hist'.early = early /\ ~hist'.taken  BY <1>0, <1>2, HistoryFields
  <2>2. Tracks(attr', now + 1, early)
    <3>1. CASE flag
      <4>1. attr' = do_requeue_time_attrs(at, now, FALSE, FALSE)  BY <1>2, <3>1
      <4> QED  BY <1>0, <4>1, TracksRequeue
    <3>2. CASE ~flag
      <4>1. attr' = do_requeue_time_attrs(at, now, TRUE, FALSE)  BY <1>2, <3>2
      <4> QED  BY <1>0, <3>2, <4>1, TracksRequeue
    <3> QED  BY <3>1, <3>2
  <2>3. \A i \in Index : ~attr'[i].free /\ ~isFree(Attrs[i], attr'[i], now')
    BY <1>0, <1>2, RequeuedSound
  <2>4. task'.state = "queued" /\ ~task'.flag  BY <1>2
  <2> QED  BY <1>0, <2>1, <2>2, <2>3, <2>4, AccountsEnter
<1>3. CASE /\ task' = [task EXCEPT !.state = "complete", !.flag = flag]
           /\ attr' = checked(at, now)
           /\ hist' = Left(early, taken)
  <2>1. hist'.from = hist.from /\ hist'.early = early /\ hist'.taken = taken
    BY <1>0, <1>3, HistoryFields
  <2>2. task'.state = "complete" /\ task'.flag = flag  BY <1>0, <1>3 DEF TypeOK
  <2>3. \A i \in Index : attr'[i].valid = at[i].valid /\ attr'[i].next = at[i].next
    BY <1>3 DEF checked, Sound, AttrState
  <2>4. Tracks(attr', hist.from, early)  BY <2>3, TracksSame
  <2> QED  BY <1>0, <2>1, <2>2, <2>4, AccountsLeave
<1> QED  BY <1>1, <1>2, <1>3 DEF Completes

\* When the task may run, no slot later than now has been run early.
LEMMA NoneLater ==
    ASSUME InDayOrder, Accounts, task.state = "queued", timeDependenciesFree(attr, now)
    PROVE  \A d \in hist.early : d <= now
PROOF
<1>0. /\ Sound(attr) /\ now \in 0 .. Day - 1 /\ hist.early \in SUBSET (0 .. Day)
      /\ hist.from \in Nat
  BY SoundAttr, AttrTypes DEF Accounts, Inv, TypeOK
<1>1. CASE Index = {}  BY <1>1 DEF Accounts, AllSlots
<1>2. ASSUME NEW i \in Index  PROVE \A d \in hist.early : d <= now
  <2>1. Attrs[i].kind \in Kinds  BY AttrTypes
  <2>2. PICK j \in Index : attr[j].free \/ isFree(Attrs[j], attr[j], now)
    BY <2>1 DEF timeDependenciesFree
  <2>3. CASE attr[j].free  BY <2>3 DEF Accounts, AnyFree
  <2>4. CASE isFree(Attrs[j], attr[j], now)
    <3>1. hist.from <= now /\ Tracks(attr, hist.from, hist.early)  BY <2>4 DEF Accounts
    <3>2. \A d \in hist.early, l \in Index : d \in 0 .. Day /\ IsSlot(Attrs[l], d) => d <= now
      BY <1>0, <2>4, <3>1, FreeIsFirst
    <3> QED  BY <1>0, <3>2 DEF Accounts, AllSlots
  <2> QED  BY <2>2, <2>3, <2>4
<1> QED  BY <1>1, <1>2

LEMMA AccountsTick ==
    ASSUME InDayOrder, Accounts, Tick, Inv'
    PROVE  Accounts'
PROOF
<1>0. /\ Inv /\ TypeOK /\ now \in 0 .. Day - 1 /\ hist.from \in Nat
      /\ hist.early \in SUBSET (0 .. Day) /\ now' \in 0 .. Day - 1 /\ Day \in Nat
      /\ \A k \in Kinds : hist.slots[k] \subseteq 0 .. Day
  <2>1. Inv /\ TypeOK /\ TypeOK' /\ Day \in Nat  BY AttrTypes DEF Accounts, Inv
  <2>2. /\ hist.from \in 0 .. Day /\ hist.early \in SUBSET (0 .. Day) /\ now \in 0 .. Day - 1
        /\ hist.slots \in [Kinds -> SUBSET (0 .. Day)]
    BY <2>1 DEF TypeOK
  <2>3. now' \in 0 .. Day - 1  BY <2>1 DEF TypeOK
  <2> QED  BY <2>1, <2>2, <2>3
<1>1. PICK changed \in BOOLEAN : Passes(changed)  BY <1>0, TickIs
<1>2. Tracks(attr', hist'.from, hist'.early)
  <2>1. CASE changed
    <3>1. \A i \in Index : attr'[i].valid /\ attr'[i].next = Attrs[i].start
      BY <1>1, <2>1 DEF Passes
    <3>2. hist'.from = 0 /\ hist'.early = {}  BY <1>1, <2>1 DEF Passes
    <3> QED  BY <3>1, <3>2, TracksFresh
  <2>2. CASE ~changed
    <3>1. \A i \in Index : attr'[i].valid = attr[i].valid /\ attr'[i].next = attr[i].next
      BY <1>1, <2>2 DEF Passes
    <3>2. hist'.from = hist.from /\ hist'.early = hist.early  BY <1>1, <2>2 DEF Passes
    <3> QED  BY <3>1, <3>2, TracksSame DEF Accounts
  <2> QED  BY <2>1, <2>2
<1>3. hist'.from <= now' /\ hist'.from \in Nat
  <2>1. CASE changed  BY <1>0, <1>1, <2>1 DEF Passes
  <2>2. CASE ~changed
    <3>1. hist'.from = hist.from /\ now < now' /\ hist.from <= now + 1
      BY <1>1, <2>2 DEF Passes, Accounts
    <3> QED  BY <1>0, <3>1
  <2> QED  BY <2>1, <2>2
<1>4. AllSlots(hist'.early) /\ hist'.early \subseteq hist.early
  BY <1>1 DEF Passes, Accounts, AllSlots
<1>5. (\A d \in hist.early : d <= now) => \A d \in hist'.early : d <= now'
  <2>1. CASE changed  BY <1>1, <2>1 DEF Passes
  <2>2. CASE ~changed
    <3>1. hist'.early = hist.early /\ now < now'  BY <1>1, <2>2 DEF Passes
    <3> QED  BY <1>0, <3>1
  <2> QED  BY <2>1, <2>2
<1>6. ASSUME NEW i \in Index, isFree(Attrs[i], attr'[i], now')
      PROVE  /\ IsSlot(Attrs[i], now') /\ now' \notin hist'.early
             /\ \A d \in hist'.early : d <= now'
             /\ now' \in SlotsNow(Attrs[i].kind, attr', now')
  <2>1. Sound(attr')  BY DEF Inv, TypeOK, Grids, Sound
  <2>2. /\ IsSlot(Attrs[i], now') /\ now' \notin hist'.early
        /\ \A d \in hist'.early, j \in Index : d \in 0 .. Day /\ IsSlot(Attrs[j], d) => d <= now'
    BY <1>0, <1>2, <1>3, <1>6, <2>1, FreeIsFirst
  <2>3. hist'.early \subseteq 0 .. Day  BY <1>0, <1>4
  <2>4. \A d \in hist'.early : d <= now'  BY <1>4, <2>2, <2>3 DEF AllSlots
  <2>5. duration(Attrs[i], attr'[i], now') = now'  BY DEF duration, InDayOrder
  <2>6. now' \in 0 .. Day  BY <1>0
  <2> QED  BY <2>2, <2>4, <2>5, <2>6 DEF SlotsNow
<1>7. ASSUME task.state = "queued", NEW i \in Index, attr'[i].free \/ isFree(Attrs[i], attr'[i], now')
      PROVE  \A d \in hist'.early : d <= now'
  <2>1. CASE isFree(Attrs[i], attr'[i], now')  BY <1>6, <2>1
  <2>2. CASE attr[i].free  BY <1>5, <1>7, <2>2 DEF Accounts, AnyFree
  <2> QED  BY <1>1, <1>7, <2>1, <2>2 DEF Passes
<1>8. /\ task' = task \/ task' = [task EXCEPT !.state = "running"]
      /\ task' # task => /\ task.state \in {"queued", "aborted"}
                         /\ timeDependenciesFree(attr', now')
      /\ task'.flag = task.flag
      /\ task'.state = "queued" => task' = task
  <2>1. task' \in Generation(task, attr', now')  BY <1>1 DEF Passes
  <2> QED  BY <1>0, <2>1 DEF Generation, TypeOK
<1>9. hist'.taken <=> task'.flag  BY <1>1, <1>8 DEF Passes, Accounts
<1>10. CASE task'.state = "queued"
  <2>0. task' = task /\ task.state = "queued"  BY <1>8, <1>10
  <2>1. \A k \in Kinds : hist'.slots[k] = hist.slots[k] \cup SlotsNow(k, attr', now')
    BY <1>1, <1>10 DEF Passes
  <2>2. ASSUME NEW i \in Index, attr'[i].free, NEW k \in Kinds
        PROVE  ~(hist'.slots[k] \subseteq hist'.early)
    <3>1. CASE isFree(Attrs[i], attr'[i], now')
      <4>1. k = Attrs[i].kind
        <5>1. PICK j \in Index : k = Attrs[j].kind  BY DEF Kinds
        <5> QED  BY <5>1 DEF InDayOrder
      <4> QED  BY <1>6, <2>1, <3>1, <4>1
    <3>2. CASE attr[i].free
      <4>1. ~(hist.slots[k] \subseteq hist.early)  BY <2>0, <3>2 DEF Accounts, AnyFree
      <4> QED  BY <1>4, <2>1, <4>1
    <3> QED  BY <1>1, <2>2, <3>1, <3>2 DEF Passes
  <2>3. ASSUME NEW i \in Index, isFree(Attrs[i], attr'[i], now')
        PROVE  now' \in SlotsSince(Attrs[i].kind)'
    <3>1. Attrs[i].kind \in Kinds  BY AttrTypes
    <3>2. now' \in hist'.slots[Attrs[i].kind]  BY <1>6, <2>1, <2>3, <3>1
    <3> QED  BY <3>2 DEF SlotsSince
  <2>4. ~task'.flag  BY <2>0 DEF Accounts
  <2>5. AnyFree' => \A d \in hist'.early : d <= now'  BY <1>7, <2>0 DEF AnyFree
  <2>6. AnyFree' => \A k \in Kinds : ~(hist'.slots[k] \subseteq hist'.early)  BY <2>2 DEF AnyFree
  <2>7. Tracks(attr, hist.from, hist.early)'
    BY <1>2 DEF Tracks, Tidy, Agrees, OneAfterAnother
  <2>8. hist'.from <= now' + 1  BY <1>0, <1>3
  <2>9. AllSlots(hist.early)'  BY <1>4 DEF AllSlots
  <2>10. \A i \in Index : isFree(Attrs[i], attr[i], now)' =>
             hist'.from <= now' /\ now' \in SlotsSince(Attrs[i].kind)'
    BY <1>3, <2>3
  <2> QED  BY <1>9, <1>10, <2>4, <2>5, <2>6, <2>7, <2>8, <2>9, <2>10 DEF Accounts
<1>11. CASE task'.state # "queued"
  <2>1. hist'.from <= now' + 1  BY <1>0, <1>3
  <2>2. ASSUME task'.state \in {"running", "aborted"}, ~task'.flag
        PROVE  \A d \in hist'.early : d <= now'
    <3>1. CASE task' = task \/ task.state = "aborted"
      <4>1. \A d \in hist.early : d <= now  BY <1>8, <2>2, <3>1 DEF Accounts
      <4> QED  BY <1>5, <4>1
    <3>2. CASE task' # task /\ task.state # "aborted"
      <4>1. task.state = "queued" /\ timeDependenciesFree(attr', now')  BY <1>8, <3>2
      <4>2. CASE Index = {}  BY <1>4, <4>2 DEF AllSlots
      <4>3. ASSUME NEW i \in Index  PROVE \A d \in hist'.early : d <= now'
        <5>1. Attrs[i].kind \in Kinds  BY AttrTypes
        <5>2. PICK j \in Index : attr'[j].free \/ isFree(Attrs[j], attr'[j], now')
          BY <4>1, <5>1 DEF timeDependenciesFree
        <5> QED  BY <1>7, <4>1, <5>2
      <4> QED  BY <4>2, <4>3
    <3> QED  BY <3>1, <3>2
  <2> QED  BY <1>2, <1>4, <1>9, <1>11, <2>1, <2>2, AccountsLeave
<1> QED  BY <1>10, <1>11

LEMMA AccountsInit ==
    ASSUME InDayOrder, Init
    PROVE  Accounts
PROOF
<1>1. Inv /\ now \in 0 .. Day - 1 /\ Day \in Nat  BY InitKeeps, AttrTypes DEF Inv, TypeOK
<1>2. hist.from = now /\ hist.early = {} /\ hist.begun = TRUE /\ task.flag = FALSE
      /\ hist.taken = FALSE /\ task.state = "queued"
  BY DEF Init
<1>3. \A i \in Index : attr[i] = reset(Attrs[i], [free |-> FALSE, valid |-> TRUE,
          next |-> Attrs[i].start, requeued |-> None, elapsed |-> 0], now)
  BY DEF Init
<1>4. Tracks(attr, now, {})  BY <1>1, <1>3, TracksReset
<1>5. ASSUME NEW i \in Index, attr[i].free  PROVE FALSE
  <2> DEFINE s == [free |-> FALSE, valid |-> TRUE, next |-> Attrs[i].start, requeued |-> None,
                   elapsed |-> 0]
  <2>1. s \in AttrState /\ s.free = FALSE  BY AttrTypes, IndexTypes DEF AttrState
  <2>2. attr[i] = reset(Attrs[i], s, now)  BY <1>3
  <2> HIDE DEF s
  <2>3. attr[i].free = s.free  BY <1>1, <2>1, <2>2, IndexTypes, ResetKeeps
  <2> QED  BY <1>5, <2>1, <2>3
<1>6. ASSUME NEW i \in Index, isFree(Attrs[i], attr[i], now)
      PROVE  now \in SlotsSince(Attrs[i].kind)
  <2>1. IsSlot(Attrs[i], now)
    BY <1>1, <1>4, <1>6, SoundAttr, FreeIsFirst
  <2>2. duration(Attrs[i], attr[i], now) = now  BY DEF duration, InDayOrder
  <2>3. now \in 0 .. Day  BY <1>1
  <2>4. now \in SlotsNow(Attrs[i].kind, attr, now)  BY <2>1, <2>2, <2>3 DEF SlotsNow
  <2> QED  BY <1>2, <2>4 DEF SlotsSince
<1>7. ~AnyFree  BY <1>5 DEF AnyFree
<1>8. AllSlots(hist.early) /\ \A d \in hist.early : d <= now  BY <1>2 DEF AllSlots
<1>9. hist.from <= now + 1 /\ hist.from <= now  BY <1>1, <1>2
<1> QED  BY <1>1, <1>2, <1>4, <1>6, <1>7, <1>8, <1>9 DEF Accounts

LEMMA AccountsNext ==
    ASSUME InDayOrder, Accounts, [Next]_vars
    PROVE  Accounts'
PROOF
<1>0. /\ Inv /\ TypeOK /\ Inv' /\ Sound(attr) /\ now \in 0 .. Day - 1 /\ Day \in Nat
      /\ hist.early \in SUBSET (0 .. Day) /\ Early \in SUBSET (0 .. Day)
      /\ hist.from \in Nat /\ hist.from <= now + 1 /\ task.flag \in BOOLEAN
      /\ hist.taken \in BOOLEAN /\ (hist.taken <=> task.flag)
      /\ Tracks(attr, hist.from, hist.early) /\ AllSlots(hist.early) /\ AllSlots(Early)
      /\ Tracks(miss(attr), hist.from, Early) /\ Sound(miss(attr))
  <2>1. Inv /\ TypeOK /\ Inv' /\ Sound(attr)  BY NextKeeps, SoundAttr DEF Accounts, Inv
  <2>2. /\ hist.early \in SUBSET (0 .. Day) /\ Early \in SUBSET (0 .. Day)
        /\ hist.from \in Nat /\ now \in 0 .. Day - 1 /\ Day \in Nat /\ task.flag \in BOOLEAN
        /\ hist.taken \in BOOLEAN
    BY <2>1, EarlyType, AttrTypes DEF TypeOK
  <2>3. AllSlots(hist.early) /\ AllSlots(Early)  BY EarlySlots DEF Accounts
  <2>4. Tracks(miss(attr), hist.from, Early) /\ Sound(miss(attr))
    BY <2>1, TracksMiss, MissSound DEF Accounts
  <2> QED  BY <2>1, <2>2, <2>3, <2>4 DEF Accounts
<1>1. \A c : Cmd(c) => now' = now /\ c \in Cmds  BY DEF Cmd
<1>2. \A e \in SUBSET (0 .. Day), b \in BOOLEAN :
          /\ Left(e, b).from = hist.from /\ Left(e, b).early = e /\ Left(e, b).taken = b
          /\ Enters(b, e).from = now + 1 /\ Enters(b, e).early = e /\ ~Enters(b, e).taken
  <2>1. Inv  BY <1>0
  <2> QED  BY <2>1, HistoryFields
<1>3. CASE Tick  BY <1>0, <1>3, AccountsTick
<1>4. CASE Generate
  <2>1. ~task.flag => \A d \in hist.early : d <= now
    <3>1. CASE task.state = "queued"  BY <1>4, <3>1, NoneLater DEF Generate
    <3>2. CASE task.state = "aborted"  BY <3>2 DEF Accounts
    <3> QED  BY <1>4, <3>1, <3>2 DEF Generate
  <2>2. /\ hist'.from = hist.from /\ hist'.early = hist.early /\ hist'.taken = hist.taken
        /\ now' = now /\ attr' = attr
    BY <1>0, <1>2, <1>4 DEF Generate
  <2>3. task'.state = "running" /\ task'.flag = task.flag  BY <1>0, <1>4 DEF Generate, TypeOK
  <2>4. Tracks(attr', hist'.from, hist'.early)  BY <1>0, <2>2
  <2> QED  BY <1>0, <2>1, <2>2, <2>3, <2>4, AccountsLeave
<1>5. CASE JobCompletes
  <2>1. now' = now /\ Completes(task.flag, attr, TRUE, hist.early, hist.taken)
    BY <1>5 DEF JobCompletes
  <2>2. ~task.flag => \A d \in hist.early : d <= now  BY <1>5 DEF JobCompletes, Accounts
  <2> QED  BY <1>0, <2>1, <2>2, AccountsCompletes
<1>6. CASE CompleteByRule
  <2>1. PICK inCmd \in BOOLEAN : Completes(task.flag, attr, inCmd, hist.early, hist.taken)
    BY <1>6 DEF CompleteByRule
  <2>2. \A d \in hist.early : d <= now  BY <1>6, NoneLater DEF CompleteByRule
  <2>3. now' = now  BY <1>6 DEF CompleteByRule
  <2> QED  BY <1>0, <2>1, <2>2, <2>3, AccountsCompletes
<1>7. CASE JobAborts
  <2>1. /\ hist'.from = hist.from /\ hist'.early = hist.early /\ hist'.taken = hist.taken
        /\ now' = now /\ attr' = attr
    BY <1>0, <1>1, <1>2, <1>7 DEF JobAborts
  <2>2. task'.state = "aborted" /\ task'.flag = task.flag  BY <1>0, <1>7 DEF JobAborts, TypeOK
  <2>3. Tracks(attr', hist'.from, hist'.early)  BY <1>0, <2>1
  <2>4. ~task.flag => \A d \in hist.early : d <= now  BY <1>7 DEF JobAborts, Accounts
  <2> QED  BY <1>0, <2>1, <2>2, <2>3, <2>4, AccountsLeave
<1>8. CASE Run
  <2>1. /\ hist'.from = hist.from /\ hist'.early = Early /\ hist'.taken = TRUE
        /\ now' = now /\ attr' = miss(attr)
    <3>1. hist' = [Left(Early, TRUE) EXCEPT !.overnight = hist.overnight]  BY <1>8 DEF Run
    <3>2. Left(Early, TRUE) \in Histories  BY <1>0, HistoryTypes
    <3>3. /\ hist'.from = Left(Early, TRUE).from /\ hist'.early = Left(Early, TRUE).early
          /\ hist'.taken = Left(Early, TRUE).taken
      BY <3>1, <3>2 DEF Histories
    <3> QED  BY <1>0, <1>1, <1>2, <1>8, <3>3 DEF Run
  <2>2. task'.state = "running" /\ task'.flag = TRUE  BY <1>0, <1>8 DEF Run, TypeOK
  <2>3. Tracks(attr', hist'.from, hist'.early)  BY <1>0, <2>1
  <2> QED  BY <1>0, <2>1, <2>2, <2>3, AccountsLeave
<1>9. CASE ForceComplete
  <2>0. now' = now  BY <1>1, <1>9 DEF ForceComplete
  <2>1. CASE Completes(TRUE, miss(attr), TRUE, Early, TRUE)
    BY <1>0, <2>0, <2>1, AccountsCompletes
  <2>2. CASE /\ task.state = "complete"
             /\ attr' = miss(attr)
             /\ task' = [task EXCEPT !.flag = TRUE]
             /\ hist' = Left(Early, TRUE)
    <3>1. hist'.from = hist.from /\ hist'.early = Early /\ hist'.taken = TRUE  BY <1>0, <1>2, <2>2
    <3>2. task'.state = "complete" /\ task'.flag = TRUE  BY <1>0, <2>2 DEF TypeOK
    <3>3. Tracks(attr', hist'.from, hist'.early)  BY <1>0, <2>2, <3>1
    <3> QED  BY <1>0, <2>0, <3>1, <3>2, <3>3, AccountsLeave
  <2> QED  BY <1>9, <2>1, <2>2 DEF ForceComplete
<1>10. ~FreeDep  BY <1>1 DEF FreeDep, InDayOrder
<1>11. CASE RequeueNode
  <2>0. now' = now /\ {} \in SUBSET (0 .. Day) /\ {} \in SUBSET Int /\ hist.early \in SUBSET Int
    BY <1>0, <1>1, <1>11 DEF RequeueNode
  <2>1. hist'.from = now + 1 /\ hist'.early = {} /\ ~hist'.taken
    BY <1>2, <1>11, <2>0 DEF RequeueNode
  <2>2. attr' = do_requeue_time_attrs(attr, now, TRUE, TRUE) /\ ~task'.flag /\ task'.state = "queued"
    BY <1>11 DEF RequeueNode
  <2>3. Tracks(attr', now + 1, {})  BY <1>0, <2>0, <2>2, TracksRequeue
  <2>4. \A i \in Index : ~attr'[i].free /\ ~isFree(Attrs[i], attr'[i], now')
    BY <1>0, <2>0, <2>2, RequeuedSound
  <2>5. hist'.from <= now' + 1 /\ AllSlots(hist'.early)  BY <1>0, <2>0, <2>1 DEF AllSlots
  <2> QED  BY <1>0, <2>0, <2>1, <2>2, <2>3, <2>4, <2>5, AccountsEnter
<1>12. CASE UNCHANGED vars
  BY <1>12 DEF vars, Accounts, Inv, TypeOK, Grids, Released, Tracks, Tidy, Agrees,
               OneAfterAnother, AllSlots, AnyFree, SlotsSince
<1> QED  BY <1>3, <1>4, <1>5, <1>6, <1>7, <1>8, <1>9, <1>10, <1>11, <1>12 DEF Next

LEMMA AccountsHold == ASSUME InDayOrder PROVE Spec => []Accounts
PROOF
<1>1. Init => Accounts  BY AccountsInit
<1>2. Accounts /\ [Next]_vars => Accounts'  BY AccountsNext
<1> QED  BY <1>1, <1>2, PTL DEF Spec

\* Where the attributes are in the order of the day: whatever users ran or
\* completed before its time, whenever its jobs ended, however late the server,
\* the clock releases a queued task only for a slot that nobody has run early.
THEOREM EarlyRunsCount == ASSUME InDayOrder PROVE Spec => []EarlyRunsReplaceSlots
PROOF
<1>1. Accounts => EarlyRunsReplaceSlots
  <2> SUFFICES ASSUME Accounts, task.state = "queued", timeDependenciesFree(attr, now),
                      NEW k \in Kinds
               PROVE  ~(SlotsSince(k) \subseteq hist.early)
    BY DEF EarlyRunsReplaceSlots
  <2>0. Sound(attr) /\ now \in 0 .. Day - 1 /\ hist.from \in Nat
        /\ Tracks(attr, hist.from, hist.early)
    BY SoundAttr, AttrTypes DEF Accounts, Inv, TypeOK
  <2>1. PICK i \in Index : Attrs[i].kind = k /\ (attr[i].free \/ isFree(Attrs[i], attr[i], now))
    BY DEF timeDependenciesFree
  <2>2. CASE attr[i].free
    <3>1. ~(hist.slots[k] \subseteq hist.early)  BY <2>2 DEF Accounts, AnyFree
    <3>2. hist.slots[k] \subseteq SlotsSince(k)  BY DEF SlotsSince
    <3> QED  BY <3>1, <3>2
  <2>3. CASE isFree(Attrs[i], attr[i], now)
    <3>1. hist.from <= now /\ now \in SlotsSince(k)  BY <2>1, <2>3 DEF Accounts
    <3>2. now \notin hist.early  BY <2>0, <2>3, <3>1, FreeIsFirst
    <3> QED  BY <3>1, <3>2
  <2> QED  BY <2>1, <2>2, <2>3
<1> QED  BY <1>1, AccountsHold, PTL

\* Every attribute is a time whose finish is one of its slots, and the server
\* is in time.
SlotsAreMet ==
    /\ \A i \in Index : Attrs[i].kind = "time" /\ IsSlot(Attrs[i], Attrs[i].finish)
    /\ ~Late

\* A queued task waits for a slot or is free, and is free if it has met one.
Waits ==
    /\ Accounts
    /\ hist.freed = {}
    /\ task.state = "queued" =>
           /\ hist.timed => AnyFree \/ \E i \in Index : attr[i].valid /\ now < Attrs[i].finish
           /\ hist.early # {} => hist.timed
           /\ (\E k \in Kinds : ~(hist.slots[k] \subseteq hist.early)) => AnyFree

\* The re-queue leaves a valid attribute whose finish is still to come.
SlotToCome(at, t, again, rel) ==
    \E i \in Index : do_requeue_time_attrs(at, t, again, rel)[i].valid /\ t < Attrs[i].finish

\* checkForRequeue re-queues the task only if it finds a slot to come.
LEMMA RequeuedForASlot ==
    ASSUME InDayOrder, SlotsAreMet, NEW at, Sound(at), NEW f, NEW e, Tracks(at, f, e),
           NEW t \in 0 .. Day - 1, NEW inCmd \in BOOLEAN, NEW again \in BOOLEAN, NEW rel \in BOOLEAN,
           testTimeDependenciesForRequeue(at, t, inCmd)
    PROVE  SlotToCome(at, t, again, rel)
PROOF
<1>0. t \in Nat /\ Index = 1 .. Len(Attrs)  BY AttrTypes
<1>1. PICK i \in Index : checkForRequeue(Attrs[i], at[i], t, inCmd)
  <2>1. "cron" \notin Kinds  BY DEF Kinds, SlotsAreMet
  <2> QED  BY <2>1 DEF testTimeDependenciesForRequeue
<1>2. at[i].valid /\ duration(Attrs[i], at[i], t) = t
  BY <1>1 DEF checkForRequeue, duration, InDayOrder
<1>3. PICK m \in Index : at[m].valid /\ t < Attrs[m].finish
  <2>1. CASE hasIncrement(Attrs[i])
    <3> DEFINE x == Attrs[i].finish - Attrs[i].start
               y == Attrs[i].incr
    <3>1. t < Attrs[i].start + (x \div y) * y  BY <1>1, <1>2, <2>1 DEF checkForRequeue, lastTimeSlot
    <3>2. x \in Nat /\ y \in Nat \ {0}  BY <2>1, IndexTypes DEF hasIncrement
    <3>3. (x \div y) * y <= x /\ (x \div y) \in Nat
      <4> HIDE DEF x, y
      <4> QED  BY <3>2, SMTT(30)
    <3>4. (x \div y) * y \in Nat  BY <3>2, <3>3, Products
    <3> QED  BY <1>0, <1>2, <3>1, <3>3, <3>4, IndexTypes
  <2>2. CASE ~hasIncrement(Attrs[i])
    <3> DEFINE m == Len(Attrs)
               F == {Attrs[j].finish : j \in {l \in Index : Attrs[l].kind = "time"}}
    <3>1. t < maxSlot("time")  BY <1>1, <1>2, <2>2 DEF checkForRequeue
    <3>2. m \in Index /\ m \in Nat /\ \A j \in Index : j < m \/ j = m
      <4>1. Len(Attrs) \in Nat  BY TimeAssumption
      <4> QED  BY <1>0, <4>1
    <3> HIDE DEF m
    <3>3. \A j \in Index : Attrs[j].finish <= Attrs[m].finish
      <4> TAKE j \in Index
      <4>1. CASE j < m
        <5>1. Attrs[j].finish < Attrs[m].start  BY <3>2, <4>1 DEF InDayOrder
        <5> QED  BY <3>2, <5>1, IndexTypes
      <4>2. CASE j = m  BY <3>2, <4>2, IndexTypes
      <4> QED  BY <3>2, <4>1, <4>2
    <3>4. Attrs[m].finish \in F  BY <3>2 DEF SlotsAreMet
    <3>5. \E x \in F : \A j \in Index : Attrs[j].kind = "time" => x >= Attrs[j].finish
      BY <3>2, <3>3, <3>4, IndexTypes
    <3>6. maxSlot("time") \in F  BY <3>5 DEF maxSlot
    <3>7. PICK j \in Index : maxSlot("time") = Attrs[j].finish  BY <3>6
    <3>8. t < Attrs[m].finish  BY <1>0, <3>1, <3>2, <3>3, <3>7, IndexTypes
    <3>9. at[m].valid
      <4>1. i < m => at[m].valid  BY <1>2, <3>2 DEF Tracks, OneAfterAnother
      <4> QED  BY <1>2, <3>2, <4>1
    <3> QED  BY <3>2, <3>8, <3>9
  <2> QED  BY <2>1, <2>2
<1> DEFINE a == Attrs[m]
           s == [valid |-> again \/ at[m].valid, next |-> IF again THEN a.start ELSE at[m].next]
           r == do_requeue_time_attrs(at, t, again, rel)[m]
<1>4. (s.valid <=> again \/ at[m].valid) /\ s.next = IF again THEN a.start ELSE at[m].next
  OBVIOUS
<1> HIDE DEF s
<1>5. s.valid /\ s.next <= a.finish /\ Tidy(a, s)
  <2>1. Tidy(a, at[m])  BY DEF Tracks
  <2>2. a.start = a.start + 0 * a.incr /\ 0 \in Nat  BY IndexTypes
  <2>3. Placed(a, a.start)  BY <2>2 DEF Placed
  <2> QED  BY <1>3, <1>4, <2>1, <2>3, IndexTypes DEF Tidy
<1>6. Requeues(a, s, r, t)  BY <1>4, RequeueResult
<1> HIDE DEF r, a
<1>7. a \in Attribute /\ a.start <= a.finish /\ a.finish \in Nat /\ IsSlot(a, a.finish)
  BY IndexTypes, AttrTypes DEF SlotsAreMet, a
<1>8. r.valid  BY <1>0, <1>3, <1>5, <1>6, <1>7, RequeuesKeeps DEF a
<1> QED  BY <1>3, <1>8 DEF r, SlotToCome

LEMMA WaitsCompletes ==
    ASSUME InDayOrder, SlotsAreMet, Waits, NEW at, Sound(at), NEW flag \in BOOLEAN,
           NEW inCmd \in BOOLEAN, NEW early \in SUBSET (0 .. Day), Tracks(at, hist.from, early),
           NEW taken \in BOOLEAN, Completes(flag, at, inCmd, early, taken), now' = now, Accounts'
    PROVE  Waits'
PROOF
<1>0. /\ Inv /\ now \in 0 .. Day - 1 /\ {} \in SUBSET (0 .. Day)
      /\ \A k \in Kinds : NoSlots[k] = {}
  BY DEF Waits, Accounts, Inv, TypeOK, NoSlots
<1>1. CASE /\ task' = [state |-> "queued", flag |-> FALSE, repeat |-> task.repeat - 1]
           /\ attr' = do_requeue_time_attrs(at, now, TRUE, TRUE)
           /\ hist' = Enters(FALSE, {})
  <2>1. hist'.timed = FALSE /\ hist'.early = {} /\ hist'.slots = NoSlots /\ hist'.freed = {}
    BY <1>0, <1>1, HistoryFields
  <2> QED  BY <1>0, <2>1 DEF Waits
<1>2. CASE /\ testTimeDependenciesForRequeue(at, now, inCmd)
           /\ attr' = do_requeue_time_attrs(at, now, ~flag, FALSE)
           /\ hist' = Enters(TRUE, early)
  <2>1. hist'.timed = TRUE /\ hist'.early = early /\ hist'.slots = NoSlots /\ hist'.freed = {}
    BY <1>0, <1>2, HistoryFields
  <2>2. \E i \in Index : attr'[i].valid /\ now < Attrs[i].finish
    <3>1. CASE flag
      <4>1. attr' = do_requeue_time_attrs(at, now, FALSE, FALSE)  BY <1>2, <3>1
      <4>2. testTimeDependenciesForRequeue(at, now, inCmd)  BY <1>2
      <4>3. SlotToCome(at, now, FALSE, FALSE)  BY <1>0, <4>2, RequeuedForASlot
      <4> QED  BY <4>1, <4>3 DEF SlotToCome
    <3>2. CASE ~flag
      <4>1. attr' = do_requeue_time_attrs(at, now, TRUE, FALSE)  BY <1>2, <3>2
      <4>2. testTimeDependenciesForRequeue(at, now, inCmd)  BY <1>2
      <4>3. SlotToCome(at, now, TRUE, FALSE)  BY <1>0, <4>2, RequeuedForASlot
      <4> QED  BY <4>1, <4>3 DEF SlotToCome
    <3> QED  BY <3>1, <3>2
  <2> QED  BY <1>0, <2>1, <2>2 DEF Waits
<1>3. CASE /\ task' = [task EXCEPT !.state = "complete", !.flag = flag]
           /\ hist' = Left(early, taken)
  <2>1. hist'.freed = {}  BY <1>0, <1>3, HistoryFields
  <2>2. task'.state = "complete"  BY <1>0, <1>3 DEF Inv, TypeOK
  <2> QED  BY <2>1, <2>2 DEF Waits
<1> QED  BY <1>1, <1>2, <1>3 DEF Completes

LEMMA WaitsTick ==
    ASSUME InDayOrder, SlotsAreMet, Waits, Tick, Accounts'
    PROVE  Waits'
PROOF
<1>0. /\ Inv /\ now \in 0 .. Day - 1 /\ Day \in Nat /\ now' \in 0 .. Day - 1
      /\ task \in [state : {"queued", "running", "complete", "aborted"}, flag : BOOLEAN,
                   repeat : 0 .. Repeats]
      /\ hist'.from \in Nat /\ Tracks(attr', hist'.from, hist'.early)
      /\ Tracks(attr, hist.from, hist.early) /\ hist.from <= now + 1 /\ hist.from \in Nat
  BY AttrTypes DEF Waits, Accounts, Inv, TypeOK, Tracks, Tidy, Agrees, OneAfterAnother
<1>1. PICK changed \in BOOLEAN : Passes(changed)  BY <1>0, TickIs
<1>2. hist'.freed = {}  BY <1>1 DEF Passes, Waits
<1>3. CASE task'.state # "queued"  BY <1>2, <1>3 DEF Waits
<1>4. CASE task'.state = "queued"
  <2>0. task' = task /\ hist'.timed = hist.timed /\ hist'.from <= now'
    <3>1. task' = task  BY <1>0, <1>1, <1>4 DEF Passes, Generation
    <3>2. hist'.from <= now'  BY <1>0, <1>1 DEF Passes
    <3> QED  BY <1>1, <3>1, <3>2 DEF Passes
  <2>1. AnyFree => AnyFree'  BY <1>1 DEF Passes, AnyFree
  <2>2. ASSUME NEW i \in Index, IsSlot(Attrs[i], now'), now' \notin hist'.early
        PROVE  AnyFree'
    <3>1. isFree(Attrs[i], attr'[i], now')  BY <1>0, <2>0, <2>2, SlotFrees
    <3>2. attr'[i].free  BY <1>1, <3>1 DEF Passes
    <3> QED  BY <3>2 DEF AnyFree
  <2>3. ASSUME changed, hist.timed  PROVE AnyFree
    <3>1. now = Day - 1  BY <1>1, <2>3 DEF Passes, SlotsAreMet
    <3>2. \A i \in Index : ~(now < Attrs[i].finish)  BY <1>0, <3>1, IndexTypes
    <3> QED  BY <1>4, <2>0, <2>3, <3>2 DEF Waits
  <2>4. ASSUME hist'.timed
        PROVE  AnyFree' \/ \E i \in Index : attr'[i].valid /\ now' < Attrs[i].finish
    <3>1. CASE AnyFree  BY <2>1, <3>1
    <3>2. CASE changed  BY <2>0, <2>1, <2>3, <2>4, <3>2
    <3>3. CASE ~AnyFree /\ ~changed
      <4>1. PICK i \in Index : attr[i].valid /\ now < Attrs[i].finish
        BY <1>4, <2>0, <2>4, <3>3 DEF Waits
      <4>2. /\ now' = now + 1 /\ hist'.early = hist.early /\ attr'[i].valid = attr[i].valid
            /\ attr'[i].next = attr[i].next
        BY <1>1, <3>3 DEF Passes, SlotsAreMet
      <4>3. CASE now' < Attrs[i].finish  BY <4>1, <4>2, <4>3
      <4>4. CASE now' = Attrs[i].finish
        <5>1. IsSlot(Attrs[i], now')  BY <4>4 DEF SlotsAreMet
        <5>2. attr[i].next <= now'  BY <1>0, <4>1, <4>4 DEF Tracks, Tidy
        <5>3. now' \in hist.from .. Day  BY <1>0, <4>2
        <5>4. now' \notin hist'.early  BY <1>0, <4>1, <4>2, <5>1, <5>2, <5>3 DEF Tracks, Agrees
        <5> QED  BY <2>2, <5>1, <5>4
      <4> QED  BY <1>0, <4>1, <4>2, <4>3, <4>4, IndexTypes
    <3> QED  BY <3>1, <3>2, <3>3
  <2>5. hist'.early # {} => hist'.timed
    <3>1. hist'.early # {} => hist.early # {}  BY <1>1 DEF Passes
    <3> QED  BY <1>4, <2>0, <3>1 DEF Waits
  <2>6. ASSUME NEW k \in Kinds, ~(hist'.slots[k] \subseteq hist'.early)  PROVE AnyFree'
    <3>1. PICK d \in hist'.slots[k] : d \notin hist'.early  BY <2>6
    <3>2. d \in hist.slots[k] \/ d \in SlotsNow(k, attr', now')
      BY <1>1, <1>4, <3>1 DEF Passes
    <3>3. CASE d \in SlotsNow(k, attr', now')
      <4>1. PICK i \in Index : d = duration(Attrs[i], attr'[i], now') /\ IsSlot(Attrs[i], d)
        BY <3>3 DEF SlotsNow
      <4>2. d = now'  BY <4>1 DEF duration, InDayOrder
      <4> QED  BY <2>2, <3>1, <4>1, <4>2
    <3>4. CASE d \in hist.slots[k] /\ d \notin hist.early
      <4>1. AnyFree  BY <1>4, <2>0, <3>4 DEF Waits
      <4> QED  BY <2>1, <4>1
    <3>5. CASE d \in hist.early
      <4>1. changed  BY <1>1, <3>1, <3>5 DEF Passes
      <4>2. hist.timed  BY <1>4, <2>0, <3>5 DEF Waits
      <4> QED  BY <2>1, <2>3, <4>1, <4>2
    <3> QED  BY <3>2, <3>3, <3>4, <3>5
  <2> QED  BY <1>2, <2>4, <2>5, <2>6 DEF Waits
<1> QED  BY <1>3, <1>4

LEMMA WaitsInit ==
    ASSUME InDayOrder, Init
    PROVE  Waits
PROOF
<1>1. Accounts  BY AccountsInit
<1>2. hist.timed = FALSE /\ hist.early = {} /\ hist.freed = {} /\ hist.slots = NoSlots
  BY DEF Init
<1>3. \A k \in Kinds : NoSlots[k] = {}  BY DEF NoSlots
<1> QED  BY <1>1, <1>2, <1>3 DEF Waits

LEMMA WaitsNext ==
    ASSUME InDayOrder, SlotsAreMet, Waits, [Next]_vars
    PROVE  Waits'
PROOF
<1>0. /\ Accounts /\ Accounts' /\ Inv /\ TypeOK /\ Sound(attr)
      /\ now \in 0 .. Day - 1
      /\ hist.early \in SUBSET (0 .. Day) /\ Early \in SUBSET (0 .. Day)
      /\ {} \in SUBSET (0 .. Day) /\ task.flag \in BOOLEAN /\ hist.taken \in BOOLEAN
      /\ Tracks(attr, hist.from, hist.early)
      /\ Tracks(miss(attr), hist.from, Early) /\ Sound(miss(attr))
      /\ \A k \in Kinds : NoSlots[k] = {}
  <2>1. Accounts /\ Accounts' /\ Inv /\ TypeOK /\ Sound(attr)
    BY AccountsNext, SoundAttr DEF Waits, Accounts, Inv
  <2>2. /\ hist.early \in SUBSET (0 .. Day) /\ Early \in SUBSET (0 .. Day)
        /\ now \in 0 .. Day - 1 /\ task.flag \in BOOLEAN /\ hist.taken \in BOOLEAN
    BY <2>1, EarlyType DEF TypeOK
  <2>3. Tracks(attr, hist.from, hist.early) /\ (hist.taken <=> task.flag)  BY <2>1 DEF Accounts
  <2>4. Tracks(miss(attr), hist.from, Early) /\ Sound(miss(attr))
    BY <2>1, <2>3, TracksMiss, MissSound
  <2> QED  BY <2>1, <2>2, <2>3, <2>4 DEF NoSlots
<1>1. \A c : Cmd(c) => now' = now /\ c \in Cmds  BY DEF Cmd
<1>2. \A e \in SUBSET (0 .. Day), b \in BOOLEAN :
          /\ Left(e, b).freed = {}
          /\ Enters(b, e).freed = {} /\ Enters(b, e).timed = b /\ Enters(b, e).early = e
          /\ Enters(b, e).slots = NoSlots
  BY <1>0, HistoryFields
<1>3. hist'.freed = {} /\ task'.state # "queued" => Waits'  BY <1>0 DEF Waits
<1>4. CASE Tick  BY <1>0, <1>4, WaitsTick
<1>5. CASE Generate
  <2>1. task'.state = "running" /\ hist'.freed = {}
    BY <1>0, <1>2, <1>5 DEF Generate, TypeOK
  <2> QED  BY <1>3, <2>1
<1>6. CASE JobCompletes  BY <1>0, <1>6, WaitsCompletes DEF JobCompletes
<1>7. CASE CompleteByRule
  <2>1. PICK inCmd \in BOOLEAN : Completes(task.flag, attr, inCmd, hist.early, hist.taken)
    BY <1>7 DEF CompleteByRule
  <2>2. now' = now  BY <1>7 DEF CompleteByRule
  <2> QED  BY <1>0, <2>1, <2>2, WaitsCompletes
<1>8. CASE JobAborts
  <2>1. task'.state = "aborted" /\ hist'.freed = {}
    BY <1>0, <1>2, <1>8 DEF JobAborts, TypeOK
  <2> QED  BY <1>3, <2>1
<1>9. CASE Run
  <2>1. Left(Early, TRUE) \in Histories /\ Left(Early, TRUE).freed = {}  BY <1>0, <1>2, HistoryTypes
  <2>2. hist' = [Left(Early, TRUE) EXCEPT !.overnight = hist.overnight]  BY <1>9 DEF Run
  <2>3. hist'.freed = {}  BY <2>1, <2>2 DEF Histories
  <2>4. task'.state = "running"  BY <1>0, <1>9 DEF Run, TypeOK
  <2> QED  BY <1>3, <2>3, <2>4
<1>10. CASE ForceComplete
  <2>0. now' = now  BY <1>1, <1>10 DEF ForceComplete
  <2>1. CASE Completes(TRUE, miss(attr), TRUE, Early, TRUE)
    BY <1>0, <2>0, <2>1, WaitsCompletes
  <2>2. CASE task.state = "complete" /\ task' = [task EXCEPT !.flag = TRUE] /\ hist' = Left(Early, TRUE)
    <3>1. task'.state = "complete" /\ hist'.freed = {}  BY <1>0, <1>2, <2>2 DEF TypeOK
    <3> QED  BY <1>3, <3>1
  <2> QED  BY <1>10, <2>1, <2>2 DEF ForceComplete
<1>11. ~FreeDep  BY <1>1 DEF FreeDep, InDayOrder
<1>12. CASE RequeueNode
  <2>1. hist' = Enters(FALSE, {})  BY <1>12 DEF RequeueNode
  <2>2. hist'.freed = {} /\ hist'.timed = FALSE /\ hist'.early = {} /\ hist'.slots = NoSlots
    BY <1>0, <1>2, <2>1
  <2> QED  BY <1>0, <2>2 DEF Waits
<1>13. CASE UNCHANGED vars
  BY <1>0, <1>13 DEF vars, Waits, AnyFree
<1> QED  BY <1>4, <1>5, <1>6, <1>7, <1>8, <1>9, <1>10, <1>11, <1>12, <1>13 DEF Next

LEMMA WaitsHold == ASSUME InDayOrder, SlotsAreMet PROVE Spec => []Waits
PROOF
<1>1. Init => Waits  BY WaitsInit
<1>2. Waits /\ [Next]_vars => Waits'  BY WaitsNext
<1> QED  BY <1>1, <1>2, PTL DEF Spec

\* A task that checkForRequeue put back into the queue has a slot still to come
\* that day, or is free already, for every list of times in the order of the day
\* whose finishes are slots.
THEOREM AlwaysQueuedForASlot ==
    ASSUME InDayOrder, SlotsAreMet PROVE Spec => []QueuedForASlot
PROOF
<1>1. Waits => QueuedForASlot
  <2> SUFFICES ASSUME Waits, task.state = "queued", hist.timed, ~timeDependenciesFree(attr, now)
               PROVE  \E i \in Index :
                          /\ attr[i].valid
                          /\ \E d \in 0 .. Day : /\ d > duration(Attrs[i], attr[i], now)
                                                 /\ d >= attr[i].next /\ IsSlot(Attrs[i], d)
    BY DEF QueuedForASlot
  <2>1. ~AnyFree  BY DEF AnyFree, timeDependenciesFree, Kinds, InDayOrder
  <2>2. PICK i \in Index : attr[i].valid /\ now < Attrs[i].finish  BY <2>1 DEF Waits
  <2>3. duration(Attrs[i], attr[i], now) = now  BY DEF duration, InDayOrder
  <2>4. attr[i].next <= Attrs[i].finish /\ attr[i].next \in Nat
    BY <2>2 DEF Waits, Accounts, Tracks, Tidy
  <2>5. Attrs[i].finish \in 0 .. Day  BY IndexTypes, AttrTypes
  <2>6. now \in 0 .. Day - 1  BY DEF Waits, Accounts, Inv, TypeOK
  <2> DEFINE d == Attrs[i].finish
  <2>7. d > now /\ d >= attr[i].next /\ IsSlot(Attrs[i], d) /\ d \in 0 .. Day
    BY <2>2, <2>4, <2>5, <2>6, IndexTypes DEF SlotsAreMet
  <2> QED  BY <2>2, <2>3, <2>7
<1> QED  BY <1>1, WaitsHold, PTL

\* A slot that comes while the task is queued, and that no user ran early, frees
\* it, whatever users and jobs did before, also over midnight.
THEOREM SlotsNeverLost ==
    ASSUME InDayOrder, SlotsAreMet PROVE Spec => []NoSlotLost
PROOF
<1>1. Waits => NoSlotLost
  <2> SUFFICES ASSUME Waits, task.state = "queued",
                      \A k \in Kinds : ~(hist.slots[k] \subseteq hist.early) \/ k \in hist.freed,
                      NEW l \in Kinds
               PROVE  \E i \in Index : Attrs[i].kind = l /\ (attr[i].free \/ isFree(Attrs[i], attr[i], now))
    BY DEF NoSlotLost, timeDependenciesFree
  <2>1. AnyFree  BY DEF Waits
  <2>2. PICK i \in Index : attr[i].free  BY <2>1 DEF AnyFree
  <2>3. Attrs[i].kind = l
    <3>1. PICK j \in Index : l = Attrs[j].kind  BY DEF Kinds
    <3> QED  BY <3>1 DEF InDayOrder
  <2> QED  BY <2>2, <2>3
<1> QED  BY <1>1, WaitsHold, PTL

=============================================================================

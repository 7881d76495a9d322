----------------------------- MODULE ClientSync -----------------------------
(***************************************************************************)
(* Incremental synchronisation of the clients' local definitions.          *)
(*                                                                         *)
(* The server numbers every small change (state change number) and every   *)
(* structural one (modify change number).  A client sends the two numbers  *)
(* of its copy; the server answers with the whole definition or with the   *)
(* items whose number is greater than the client's.  A client can register *)
(* a handle, a set of suites, and is then sent only those suites.          *)
(*                                                                         *)
(* A suite's node tree is one item with a value and a change number, its   *)
(* calendar is a second one; the definition's own state, flag, order,      *)
(* server state and server variables are the item `root'.                  *)
(***************************************************************************)
EXTENDS Integers, FiniteSets

CONSTANTS
    Suites,      \* names of suites
    Loaded,      \* the suites the server is started with
    Clients,     \* client programs that keep a copy
    UserOf,      \* UserOf[c]: the user that runs client c
    Vals,        \* values of an item, 0 among them
    MaxHandle,   \* bound: handles that can be registered at a time
    MaxState,    \* bound: state changes
    MaxModify,   \* bound: structural changes
    Allowed,     \* the kinds of step a run explores
    MaxEvents,   \* bound: steps that are counted as events, see Event
    None         \* no definition

\* Definitions, and what is left of them without the calendars.
Defs == [root : Vals, on : SUBSET Suites, item : [Suites -> Vals], cal : [Suites -> Vals]]
Views == [root : Vals, on : SUBSET Suites, item : [Suites -> Vals]]

ASSUME SyncAssumption ==
    /\ IsFiniteSet(Suites) /\ Loaded \subseteq Suites /\ 0 \in Vals
    /\ None \notin Defs \cup Views
    /\ MaxHandle \in Nat /\ MaxState \in Nat /\ MaxModify \in Nat /\ MaxEvents \in Nat

Handles == 1 .. MaxHandle

VARIABLES
    ecf,     \* Ecf::state_change_no_ and modify_change_no_ of the server
    root,    \* the definition's own item: value and change number
    suite,   \* the suites of the server's definition
    handle,  \* ClientSuiteMgr: the registered handles
    cache,   \* DefsCache: the last full definition that was serialised
    client,  \* per client: handle, change numbers and local definition
    wire,    \* per client: the reply on its way to it
    saved,   \* the definition in the check point file
    events   \* events so far

server == <<ecf, root, suite, handle, cache, saved>>
vars == <<ecf, root, suite, handle, cache, client, wire, saved, events>>

\* What goes wrong, and what breaks the mirror although nothing goes wrong.
Event(kind) == kind \in Allowed /\ events < MaxEvents /\ events' = events + 1

-----------------------------------------------------------------------------
(* Definitions *)

NoSuite  == [on |-> FALSE, sno |-> 0, mno |-> 0, v |-> 0, no |-> 0,
             cal |-> 0, calno |-> 0]
NoHandle == [on |-> FALSE, user |-> None, auto |-> FALSE, names |-> {},
             changed |-> FALSE, sno |-> 0, mno |-> 0]
NoReply  == [kind |-> "none"]

MaxOf(S) == CHOOSE x \in S : \A y \in S : y <= x

\* Ecf::incr_state_change_no and incr_modify_change_no; the bounds stay below
\* the width of an unsigned int.
IncrS(e) == [e EXCEPT !.s = @ + 1]
IncrM(e) == [e EXCEPT !.m = @ + 1]

Live == {n \in Suites : suite[n].on}

\* The server's definition, as it would be written out now.
Now == [root |-> root.v, on |-> Live,
        item |-> [n \in Suites |-> suite[n].v],
        cal  |-> [n \in Suites |-> suite[n].cal]]

\* A definition with only the suites of S.
Limited(d, S) ==
    [root |-> d.root, on |-> d.on \cap S,
     item |-> [n \in Suites |-> IF n \in S THEN d.item[n] ELSE 0],
     cal  |-> [n \in Suites |-> IF n \in S THEN d.cal[n] ELSE 0]]

Known(h) == h \in {0} \cup {g \in Handles : handle[g].on}

\* The suites a client with handle h is sent.  A suite pointer of a handle is
\* set exactly while the suite of that name is in the definition.
Scope(h) == IF h = 0 THEN Live ELSE handle[h].names \cap Live

\* create_defs: every suite of the definition is registered, and no other.
AllRegistered(h) == handle[h].names = Live

\* ClientSuites::max_change_no
HandleMax(h) ==
    [s |-> MaxOf({root.no, handle[h].sno} \cup {suite[n].sno : n \in Scope(h)}),
     m |-> MaxOf({0, handle[h].mno} \cup {suite[n].mno : n \in Scope(h)})]

ServerNo(h) == IF h = 0 THEN ecf ELSE HandleMax(h)

-----------------------------------------------------------------------------
(* Serving a sync request *)

\* Variant: structural changes are answered with a delta.
SendsFullNoModify(c) ==
    LET h == client[c].h  no == ServerNo(h) IN
    \/ client[c].defs = None
    \/ client[c].m > no.m \/ client[c].s > no.s
    \/ h # 0 /\ handle[h].changed

\* Variant: the flag of the handle is not looked at.
SendsFullNoFlag(c) ==
    LET no == ServerNo(client[c].h) IN
    client[c].defs = None \/ client[c].m # no.m \/ client[c].s > no.s

\* SSyncCmd::init: when the whole definition is sent.
SendsFull(c) ==
    LET h == client[c].h  no == ServerNo(h) IN
    \/ client[c].defs = None
    \/ client[c].m > no.m \/ client[c].s > no.s
    \/ client[c].m < no.m
    \/ h # 0 /\ handle[h].changed

\* Variant: the cache is keyed by one of the two change numbers alone.
CachedByState ==
    IF cache.defs = None \/ cache.s # ecf.s
    THEN [s |-> ecf.s, m |-> ecf.m, defs |-> Now] ELSE cache

\* DefsCache: re-serialised only when a change number differs from the one it
\* was made with.
Cached ==
    IF cache.defs = None \/ cache.s # ecf.s \/ cache.m # ecf.m
    THEN [s |-> ecf.s, m |-> ecf.m, defs |-> Now]
    ELSE cache

\* full_sync goes through the cache without a handle, and with one on which
\* every suite is registered.
UsesCache(h) == h = 0 \/ AllRegistered(h)

\* ClientSuites::create_defs with some suites only: the local state change
\* number of the handle is not used.
HandleDefs(h) ==
    [s    |-> MaxOf({root.no} \cup {suite[n].sno : n \in Scope(h)}),
     m    |-> MaxOf({0, handle[h].mno} \cup {suite[n].mno : n \in Scope(h)}),
     defs |-> Limited(Now, Scope(h))]

FullReply(h) ==
    LET d == IF UsesCache(h) THEN Cached ELSE HandleDefs(h)
    IN  [kind |-> "full", s |-> d.s, m |-> d.m, defs |-> d.defs]

\* Suite::collateChanges: the suite's number decides whether its tree is
\* looked at, the item's number whether it is sent.
ChangedItems(c) ==
    {n \in Scope(client[c].h) : suite[n].sno > client[c].s /\ suite[n].no > client[c].s}

\* The calendar goes with another change of the suite, or on request.
ChangedCals(c, clock) ==
    {n \in Scope(client[c].h) : suite[n].calno > client[c].s
                                /\ (clock \/ n \in ChangedItems(c))}

DeltaReply(c, clock) ==
    [kind |-> "delta", s |-> ServerNo(client[c].h).s, m |-> ServerNo(client[c].h).m,
     root |-> root.no > client[c].s, items |-> ChangedItems(c),
     cals |-> ChangedCals(c, clock),
     now |-> Limited(Now, ChangedItems(c) \cup ChangedCals(c, clock))]

SyncReply(c, clock) ==
    IF SendsFull(c) THEN FullReply(client[c].h) ELSE DeltaReply(c, clock)

\* What full_sync changes in the server: the cache, the handle's flag and,
\* when all suites are registered, the handle's own numbers.
AfterFull(h) ==
    /\ cache' = IF UsesCache(h) THEN Cached ELSE cache
    /\ handle' = IF h = 0 THEN handle
                 ELSE IF AllRegistered(h)
                 THEN [handle EXCEPT ![h].changed = FALSE, ![h].sno = ecf.s, ![h].mno = ecf.m]
                 ELSE [handle EXCEPT ![h].changed = FALSE]

\* Variants: only state changes are news; a changed handle is not.
NewsStateOnly(c) ==
    LET h == client[c].h IN
    IF ~Known(h) THEN "DO_FULL_SYNC"
    ELSE IF client[c].s = ServerNo(h).s THEN "NO_NEWS" ELSE "NEWS"

NewsNoFlag(c) ==
    LET h == client[c].h  no == ServerNo(h) IN
    IF ~Known(h) THEN "DO_FULL_SYNC"
    ELSE IF client[c].s = no.s /\ client[c].m = no.m THEN "NO_NEWS" ELSE "NEWS"

\* SNewsCmd::init
News(c) ==
    LET h == client[c].h  no == ServerNo(h) IN
    CASE ~Known(h) -> "DO_FULL_SYNC"
      [] Known(h) /\ (client[c].m > no.m \/ client[c].s > no.s) -> "DO_FULL_SYNC"
      [] Known(h) /\ client[c].m <= no.m /\ client[c].s <= no.s
         /\ (\/ h # 0 /\ handle[h].changed
             \/ client[c].m < no.m
             \/ client[c].s < no.s) -> "NEWS"
      [] OTHER -> "NO_NEWS"

-----------------------------------------------------------------------------
(* Applying a reply in the client *)

\* Variant: the changes of the suites are not applied.
MergedRootOnly(d, r, S) == [d EXCEPT !.root = IF r.root THEN r.now.root ELSE @]

\* DefsDelta::incremental_sync, for the suites of S.
Merged(d, r, S) ==
    [root |-> IF r.root THEN r.now.root ELSE d.root, on |-> d.on,
     item |-> [n \in Suites |-> IF n \in r.items \cap S THEN r.now.item[n] ELSE d.item[n]],
     cal  |-> [n \in Suites |-> IF n \in r.cals \cap S THEN r.now.cal[n] ELSE d.cal[n]]]

\* A delta names a suite the client's copy does not have.
Misfit(d, r) == ~(r.items \cup r.cals \subseteq d.on)

\* The client once it has applied the reply; S: the suites reached before an
\* error, all of them when there is none.  The numbers are set first.
Applied(cl, r, S) ==
    [cl EXCEPT !.s = r.s, !.m = r.m,
               !.defs = IF r.kind = "full" THEN r.defs ELSE Merged(@, r, S)]

-----------------------------------------------------------------------------
(* Steps of the server *)

\* The server's memory after it has restored the definition d from its check
\* point file: the numbers start from zero, Defs::restore clears the definition
\* (one change of each kind) and adds the suites, each a structural change.
Restored(d) ==
    [ecf   |-> [s |-> 1, m |-> 1 + Cardinality(d.on)],
     root  |-> [v |-> d.root, no |-> 1],
     suite |-> [n \in Suites |->
                  IF n \in d.on
                  THEN [NoSuite EXCEPT !.on = TRUE, !.v = d.item[n], !.cal = d.cal[n]]
                  ELSE NoSuite]]

NoHandles == [h \in Handles |-> NoHandle]
NoCache   == [s |-> 0, m |-> 0, defs |-> None]

Init ==
    /\ saved = [root |-> 0, on |-> Loaded, item |-> [n \in Suites |-> 0],
                cal |-> [n \in Suites |-> 0]]
    /\ ecf = Restored(saved).ecf
    /\ root = Restored(saved).root
    /\ suite = Restored(saved).suite
    /\ handle = NoHandles
    /\ cache = NoCache
    /\ client = [c \in Clients |-> [h |-> 0, s |-> 0, m |-> 0, defs |-> None]]
    /\ wire = [c \in Clients |-> NoReply]
    /\ events = 0

Room == ecf.s + 2 <= MaxState /\ ecf.m + 1 <= MaxModify

\* Variant: the definition's own change is not numbered.
RootAfterUnnumbered(e, v) == [e |-> e, root |-> [root EXCEPT !.v = v]]

\* Defs::set_most_significant_state, at the end of the commands below: the
\* state of the definition is set, and numbered, when it is a different one.
RootAfter(e, v) ==
    IF v = root.v THEN [e |-> e, root |-> root]
    ELSE [e |-> IncrS(e), root |-> [v |-> v, no |-> IncrS(e).s]]

\* A command or child command changes an item of suite n in a SuiteChanged
\* scope; the state may reach the definition.
ChangeItem(n, v, rv) ==
    LET a == RootAfter(IncrS(ecf), rv) IN
    /\ Room /\ suite[n].on /\ v # suite[n].v
    /\ ecf' = a.e /\ root' = a.root
    /\ suite' = [suite EXCEPT ![n].v = v, ![n].no = IncrS(ecf).s, ![n].sno = a.e.s]
    /\ UNCHANGED <<handle, cache, client, wire, saved, events>>

\* Suite::begin, requeue, reset and a change of the clock: a structural change.
Restructure(n, v, rv) ==
    LET a == RootAfter(IncrS(IncrM(ecf)), rv) IN
    /\ "restructure" \in Allowed
    /\ Room /\ suite[n].on
    /\ ecf' = a.e /\ root' = a.root
    /\ suite' = [suite EXCEPT ![n].v = v, ![n].no = IncrS(ecf).s,
                              ![n].sno = a.e.s, ![n].mno = a.e.m]
    /\ UNCHANGED <<handle, cache, client, wire, saved, events>>

\* The queue child command with a path: the scope is that of the job's suite n,
\* the queue belongs to suite q.
QueueByPath(n, q, v) ==
    /\ Event("queue_path")
    /\ Room /\ suite[n].on /\ suite[q].on /\ n # q /\ v # suite[q].v
    /\ ecf' = IncrS(ecf)
    /\ suite' = [suite EXCEPT ![q].v = v, ![q].no = IncrS(ecf).s, ![n].sno = IncrS(ecf).s]
    /\ UNCHANGED <<root, handle, cache, client, wire, saved>>

\* Suite::updateCalendar and Suite::resolveDependencies: the calendar gets the
\* number the next change will have, which is not taken.
Tick(n, v) ==
    /\ Event("tick")
    /\ suite[n].on /\ v # suite[n].cal
    /\ suite' = [suite EXCEPT ![n].cal = v, ![n].calno = IncrS(ecf).s]
    /\ UNCHANGED <<ecf, root, handle, cache, client, wire, saved>>

\* The server's state, flag, variables or the order of the suites change.
ChangeRoot(v) ==
    /\ Room /\ v # root.v
    /\ ecf' = IncrS(ecf)
    /\ root' = [v |-> v, no |-> IncrS(ecf).s]
    /\ UNCHANGED <<suite, handle, cache, client, wire, saved, events>>

\* Defs::add_suite_only and ClientSuiteMgr::suite_added_in_defs.
AddSuite(n, v, rv) ==
    LET a == RootAfter(IncrM(ecf), rv) IN
    /\ "suites" \in Allowed
    /\ Room /\ ~suite[n].on
    /\ ecf' = a.e /\ root' = a.root
    /\ suite' = [suite EXCEPT ![n] = [NoSuite EXCEPT !.on = TRUE, !.v = v]]
    /\ handle' = [h \in Handles |->
                    IF handle[h].on /\ (handle[h].auto \/ n \in handle[h].names)
                    THEN [handle[h] EXCEPT !.names = @ \cup {n}, !.changed = TRUE]
                    ELSE handle[h]]
    /\ UNCHANGED <<cache, client, wire, saved, events>>

\* Defs::doDeleteChild and ClientSuiteMgr::suite_deleted_in_defs.
DeleteSuite(n, rv) ==
    LET a == RootAfter(IncrM(ecf), rv) IN
    /\ "suites" \in Allowed
    /\ Room /\ suite[n].on
    /\ ecf' = a.e /\ root' = a.root
    /\ suite' = [suite EXCEPT ![n] = NoSuite]
    /\ handle' = [h \in Handles |->
                    IF handle[h].on /\ n \in handle[h].names
                    THEN [handle[h] EXCEPT !.changed = TRUE, !.mno = a.e.m]
                    ELSE handle[h]]
    /\ UNCHANGED <<cache, client, wire, saved, events>>

\* Defs::clear, for `delete _all_': the handles go too.
Clear ==
    /\ "clear" \in Allowed
    /\ Room /\ Live # {}
    /\ ecf' = IncrM(IncrS(ecf))
    /\ root' = [v |-> 0, no |-> IncrS(ecf).s]
    /\ suite' = [n \in Suites |-> NoSuite]
    /\ handle' = NoHandles
    /\ UNCHANGED <<cache, client, wire, saved, events>>

CheckPoint ==
    /\ "restart" \in Allowed
    /\ saved' = Now
    /\ UNCHANGED <<ecf, root, suite, handle, cache, client, wire, events>>

\* The server dies and starts from its check point file; handles, cache and the
\* replies on the way are gone.
Restart ==
    /\ Event("restart")
    /\ ecf' = Restored(saved).ecf
    /\ root' = Restored(saved).root
    /\ suite' = Restored(saved).suite
    /\ handle' = NoHandles
    /\ cache' = NoCache
    /\ wire' = [c \in Clients |-> NoReply]
    /\ UNCHANGED <<client, saved>>

-----------------------------------------------------------------------------
(* Requests of a client, served in one step, and the replies *)

Idle(c) == wire[c].kind = "none"

\* sync, sync_clock and sync_full.  A request with an unknown handle is
\* answered with an error, which changes nothing.
Sync(c, clock) ==
    /\ Idle(c) /\ Known(client[c].h)
    /\ wire' = [wire EXCEPT ![c] = SyncReply(c, clock)]
    /\ IF SendsFull(c) THEN AfterFull(client[c].h) ELSE UNCHANGED <<handle, cache>>
    /\ UNCHANGED <<ecf, root, suite, client, saved, events>>

\* SSyncCmd::do_sync.  Where a suite is missing in the copy, the error leaves
\* the suites after it as they were, with the numbers already set; the order of
\* the suites is not modelled.
DeliverSync(c) ==
    /\ wire[c].kind \in {"full", "delta"}
    /\ \E S \in IF wire[c].kind = "delta" /\ Misfit(client[c].defs, wire[c])
                THEN SUBSET client[c].defs.on ELSE {Suites} :
         client' = [client EXCEPT ![c] = Applied(@, wire[c], S)]
    /\ wire' = [wire EXCEPT ![c] = NoReply]
    /\ UNCHANGED <<server, events>>

\* SClientHandleCmd::handle_server_response
DeliverHandle(c) ==
    /\ wire[c].kind = "handle"
    /\ client' = [client EXCEPT ![c].h = wire[c].h]
    /\ wire' = [wire EXCEPT ![c] = NoReply]
    /\ UNCHANGED <<server, events>>

\* A reply is lost, to a client without a handle or with one.
Lose(c) ==
    /\ \/ client[c].h = 0 /\ "lost" \in Allowed /\ UNCHANGED events
       \/ client[c].h # 0 /\ Event("lost_handle")
    /\ ~Idle(c)
    /\ wire' = [wire EXCEPT ![c] = NoReply]
    /\ UNCHANGED <<ecf, root, suite, handle, cache, client, saved>>

\* ClientInvoker::reset
Reset(c) ==
    /\ "reset" \in Allowed
    /\ Idle(c)
    /\ client' = [client EXCEPT ![c] = [@ EXCEPT !.h = 0, !.defs = None]]
    /\ UNCHANGED <<server, wire, events>>

\* The handle commands: their reply, when it carries a handle, is on its way.
HandleCmd(c, hs, reply) ==
    /\ Idle(c)
    /\ handle' = hs
    /\ wire' = [wire EXCEPT ![c] = reply]
    /\ UNCHANGED <<ecf, root, suite, cache, client, saved>>

FreeHandles(hs) == {h \in Handles : ~hs[h].on}

\* create_client_suite: the lowest number that is free in the handles hs.
NewHandle(hs) == CHOOSE h \in FreeHandles(hs) : \A g \in FreeHandles(hs) : h <= g

\* ch_register (old = 0) and ch1_register (old: the handle the client has), by a
\* client without a copy or with one.
Register(c, old, names, auto) ==
    LET kept == IF old = 0 THEN handle ELSE [handle EXCEPT ![old] = NoHandle]
        h == NewHandle(kept)
    IN  /\ \/ client[c].defs = None /\ "register" \in Allowed /\ UNCHANGED events
           \/ client[c].defs # None /\ Event("reregister")
        /\ Known(old) /\ FreeHandles(kept) # {}
        /\ HandleCmd(c, [kept EXCEPT ![h] =
                           [on |-> TRUE, user |-> UserOf[c], auto |-> auto, names |-> names,
                            changed |-> names \cap Live # {}, sno |-> 0, mno |-> 0]],
                     [kind |-> "handle", h |-> h])

Drop(c) ==
    LET h == client[c].h IN
    /\ Event("drop")
    /\ h # 0 /\ Known(h)
    /\ HandleCmd(c, [handle EXCEPT ![h] = NoHandle], [kind |-> "handle", h |-> 0])

DropUser(c, u) ==
    /\ Event("drop_user")
    /\ \E h \in Handles : handle[h].on /\ handle[h].user = u
    /\ HandleCmd(c, [h \in Handles |-> IF handle[h].user = u THEN NoHandle ELSE handle[h]],
                 IF u = UserOf[c] THEN [kind |-> "handle", h |-> 0] ELSE NoReply)

AddToHandle(c, n) ==
    LET h == client[c].h IN
    /\ "register" \in Allowed /\ UNCHANGED events
    /\ h # 0 /\ Known(h)
    /\ HandleCmd(c, [handle EXCEPT ![h].names = @ \cup {n},
                                   ![h].changed = @ \/ suite[n].on], NoReply)

RemoveFromHandle(c, n) ==
    LET h == client[c].h IN
    /\ "register" \in Allowed /\ UNCHANGED events
    /\ h # 0 /\ Known(h) /\ n \in handle[h].names
    /\ HandleCmd(c, [handle EXCEPT ![h].names = @ \ {n},
                                   ![h].changed = @ \/ suite[n].on], NoReply)

AutoAdd(c, flag) ==
    LET h == client[c].h IN
    /\ "register" \in Allowed /\ UNCHANGED events
    /\ h # 0 /\ Known(h)
    /\ HandleCmd(c, [handle EXCEPT ![h].auto = flag], NoReply)

-----------------------------------------------------------------------------
ServerStep ==
    \/ \E n \in Suites, v, rv \in Vals :
          ChangeItem(n, v, rv) \/ Restructure(n, v, rv) \/ AddSuite(n, v, rv)
    \/ \E n \in Suites, rv \in Vals : DeleteSuite(n, rv)
    \/ \E n, q \in Suites, v \in Vals : QueueByPath(n, q, v)
    \/ \E n \in Suites, v \in Vals : Tick(n, v)
    \/ \E v \in Vals : ChangeRoot(v)
    \/ Clear \/ CheckPoint \/ Restart

ClientStep(c) ==
    \/ \E clock \in BOOLEAN : Sync(c, clock)
    \/ DeliverSync(c) \/ DeliverHandle(c) \/ Lose(c) \/ Reset(c)
    \/ \E old \in {0, client[c].h}, names \in SUBSET Suites, auto \in BOOLEAN :
          Register(c, old, names, auto)
    \/ Drop(c)
    \/ \E d \in Clients : DropUser(c, UserOf[d])
    \/ \E n \in Suites : AddToHandle(c, n) \/ RemoveFromHandle(c, n)
    \/ \E flag \in BOOLEAN : AutoAdd(c, flag)

Next == ServerStep \/ \E c \in Clients : ClientStep(c)

\* A client polls the server for ever, whatever other requests it makes, and the
\* network does not lose every reply.
Fairness ==
    \A c \in Clients : /\ SF_vars(\E clock \in BOOLEAN : Sync(c, clock))
                       /\ SF_vars(DeliverSync(c)) /\ SF_vars(DeliverHandle(c))

Spec == Init /\ [][Next]_vars

FairSpec == Spec /\ Fairness
-----------------------------------------------------------------------------
(* Properties *)

Users == {UserOf[c] : c \in Clients}

Replies ==
    {NoReply} \cup [kind : {"handle"}, h : Handles \cup {0}]
              \cup [kind : {"full"}, s : Nat, m : Nat, defs : Defs]
              \cup [kind : {"delta"}, s : Nat, m : Nat, root : BOOLEAN,
                    items : SUBSET Suites, cals : SUBSET Suites, now : Defs]

\* The type of every variable: the records of Ecf, Suite, ClientSuites,
\* DefsCache, ServerReply and the reply on the wire.
TypeOK ==
    /\ ecf \in [s : Nat, m : Nat]
    /\ root \in [v : Vals, no : Nat]
    /\ suite \in [Suites -> [on : BOOLEAN, sno : Nat, mno : Nat, v : Vals, no : Nat,
                             cal : Vals, calno : Nat]]
    /\ handle \in [Handles -> [on : BOOLEAN, user : Users \cup {None}, auto : BOOLEAN,
                               names : SUBSET Suites, changed : BOOLEAN,
                               sno : Nat, mno : Nat]]
    /\ cache \in [s : Nat, m : Nat, defs : Defs \cup {None}]
    /\ client \in [Clients -> [h : Handles \cup {0}, s : Nat, m : Nat,
                               defs : Defs \cup {None}]]
    /\ wire \in [Clients -> Replies]
    /\ saved \in Defs /\ events \in 0 .. MaxEvents

\* A definition without its calendars, which a plain sync may leave behind.
NoClock(d) == [root |-> d.root, on |-> d.on, item |-> d.item]

View(h) == NoClock(Limited(Now, Scope(h)))

\* A sync of any client at this moment leaves it with the server's definition,
\* limited to the suites of its handle: SSyncCmd::init sends enough, whatever
\* happened to the change numbers since the client's last sync.
SyncMirrors ==
    \A c \in Clients :
        Idle(c) /\ Known(client[c].h) =>
            LET r == SyncReply(c, FALSE) IN
            /\ r.kind = "delta" => ~Misfit(client[c].defs, r)
            /\ NoClock(Applied(client[c], r, Suites).defs) = View(client[c].h)

\* SNewsCmd says there are no news only to a client whose copy is up to date.
NoNewsIsTrue ==
    \A c \in Clients :
        Idle(c) /\ client[c].defs # None /\ News(c) = "NO_NEWS" =>
            NoClock(client[c].defs) = View(client[c].h)

\* The cached serialisation is never sent with an old content: whatever small
\* and structural changes, registrations and deletions came since it was made,
\* a client that is sent the whole definition gets the server's of this moment
\* (DefsCache is keyed by the two change numbers alone).
FullIsFresh ==
    \A c \in Clients :
        Idle(c) /\ Known(client[c].h) /\ SendsFull(c) =>
            NoClock(FullReply(client[c].h).defs) = View(client[c].h)

\* sync_clock always brings the suites' calendars (help text of sync_clock).
ClockMirrors ==
    \A c \in Clients :
        Idle(c) /\ Known(client[c].h) =>
            Applied(client[c], SyncReply(c, TRUE), Suites).defs.cal
                = Limited(Now, Scope(client[c].h)).cal

\* The server is asked for the definition of a handle only while it has that
\* handle: ClientSuiteMgr::create_defs returns a null pointer for any other and
\* full_sync uses it.
FullNamesKnownHandle ==
    \A c \in Clients : Idle(c) /\ client[c].defs = None => Known(client[c].h)

\* The detailed protocol implements Mirror: numbers, deltas, cache and handles
\* amount to handing each client the server's definition.
Abstract == INSTANCE Mirror WITH
    truth <- [c \in Clients |-> IF Known(client[c].h) THEN View(client[c].h) ELSE None],
    copy  <- [c \in Clients |-> IF client[c].defs = None THEN None
                                ELSE NoClock(client[c].defs)],
    reply <- [c \in Clients |-> IF wire[c].kind \in {"full", "delta"}
                                THEN NoClock(Applied(client[c], wire[c], Suites).defs)
                                ELSE None]

MirrorSpec == Abstract!Spec

\* A polling client that the server knows always comes to hold the server's
\* definition again, with lost replies, resets and new handles on the way:
\* SSyncCmd and DefsDelta leave no client behind.
Converges ==
    \A c \in Clients :
        []Known(client[c].h) =>
            []<>(client[c].defs # None /\ NoClock(client[c].defs) = View(client[c].h))
=============================================================================

--------------------------- MODULE DiscoveryTracker ---------------------------
(***************************************************************************)
(* The tracker thread, the DDS bus it observes and the handlers that read  *)
(* what it keeps.                                                          *)
(*                                                                         *)
(* The bus and its builtin readers are external: an entity announces       *)
(* itself and leaves; per entity a reader holds one unread sample (history *)
(* depth 1): a valid one of a live instance ("alive"), a valid one of an   *)
(* instance already disposed ("bornGone"), or an invalid one ("gone").     *)
(* The endpoints of a participant that left are disposed too, each in its  *)
(* own time, before the same guid can come back (an expired lease renewed).*)
(*                                                                         *)
(* The thread takes from the three readers in turn into sinks, then holds  *)
(* the pass lock while it applies the samples one effect at a time.  A     *)
(* handler's snapshot is one step, possible when the lock is free.         *)
(***************************************************************************)
EXTENDS DiscoveryCaches, FiniteSets

CONSTANTS MaxChanges,   \* bound on announcements and departures
          MaxFailures,  \* bound on takes that raise
          MaxTime       \* bound on the clock

ASSUME RunAssumption ==
  {MaxChanges, MaxFailures} \subseteq Nat /\ MaxTime \in Nat \ {0}

(* A guid names one entity; "none" is the id of no sample.                 *)
ASSUME EntityAssumption ==
  /\ IsFiniteSet(Participants) /\ IsFiniteSet(Endpoints)
  /\ Participants \cap Endpoints = {}
  /\ "none" \notin Participants \cup Endpoints

VARIABLES alive,      \* the entities on the bus
          pending,    \* entity -> the sample its reader holds
          stamp,      \* participant -> the DDS timestamp of that sample
          now,        \* the clock
          changes, failures,
          pc,         \* what the thread does next: a take, or "apply"
          sinks,      \* BufferedTake._pending
          batch,      \* the samples of the pass that are not applied yet
          cur,        \* the participant sample being applied
          stage,      \* which of its effects comes next
          moving,     \* the endpoints _depart has still to visit
          passNow,    \* now_ns of the pass
          lastTaken,  \* history: kind of the last sample taken, by participant
          departures, \* history: how often a participant left the bus
          logged      \* history: length of the event log when the pass began

bus     == <<alive, pending, stamp, now, changes, departures>>
thread  == <<pc, sinks, batch, cur, stage, moving, passNow>>
history == <<lastTaken, logged>>
vars    == <<caches, bus, thread, failures, history>>

Entities == Participants \cup Endpoints
Readers  == <<"participants", "publications", "subscriptions">>

ReadBy(k) == CASE k = 1 -> Participants
               [] k = 2 -> {e \in Endpoints : RoleOf[e] = "writer"}
               [] k = 3 -> {e \in Endpoints : RoleOf[e] = "reader"}

EmptySinks == [k \in 1..3 |-> <<>>]
NoSample   == [id |-> "none", kind |-> "none", at |-> None]

LockFree == pc # "apply"

Init ==
  /\ InitCaches
  /\ alive = {}
  /\ pending = [x \in Entities |-> "none"]
  /\ stamp = [p \in Participants |-> None]
  /\ now = 1
  /\ changes = 0
  /\ failures = 0
  /\ pc = Readers[1]
  /\ sinks = EmptySinks
  /\ batch = EmptySinks
  /\ cur = NoSample
  /\ stage = "next"
  /\ moving = <<>>
  /\ passNow = 1
  /\ lastTaken = [p \in Participants |-> "none"]
  /\ departures = [p \in Participants |-> 0]
  /\ logged = 0

-----------------------------------------------------------------------------
(* The bus.                                                                *)
Owned(p) == {e \in Endpoints : OwnerOf[e] = p}

MayAppear(x) ==
  IF x \in Participants THEN Owned(x) \cap alive = {} ELSE OwnerOf[x] \in alive

Appears(x) ==
  /\ changes < MaxChanges
  /\ x \notin alive
  /\ MayAppear(x)
  /\ alive' = alive \cup {x}
  /\ pending' = [pending EXCEPT ![x] = "alive"]
  /\ stamp' = IF x \in Participants THEN [stamp EXCEPT ![x] = now] ELSE stamp
  /\ changes' = changes + 1
  /\ UNCHANGED <<now, departures, caches, thread, failures, history>>

(* Endpoints of a participant that left are disposed in any case, so only  *)
(* departures the bus is free to make count against the bound.             *)
Leaves(x) ==
  /\ x \in alive
  /\ \/ changes < MaxChanges /\ changes' = changes + 1
     \/ x \in Endpoints /\ OwnerOf[x] \notin alive /\ changes' = changes
  /\ alive' = alive \ {x}
  /\ pending' = [pending EXCEPT ![x] = IF @ = "alive" THEN "bornGone" ELSE "gone"]
  /\ stamp' = IF x \in Participants /\ pending[x] # "alive"
              THEN [stamp EXCEPT ![x] = now] ELSE stamp
  /\ departures' = IF x \in Participants THEN [departures EXCEPT ![x] = @ + 1] ELSE departures
  /\ UNCHANGED <<now, caches, thread, failures, history>>

Tick ==
  /\ now < MaxTime
  /\ now' = now + 1
  /\ UNCHANGED <<alive, pending, stamp, changes, departures, caches, thread, failures, history>>

-----------------------------------------------------------------------------
(* BufferedTake: each take appends to its sink what it removed from the    *)
(* reader, in any order; one that raises may have removed some batches.    *)
Sample(x) ==
  [id |-> x, kind |-> pending[x], at |-> IF x \in Participants THEN stamp[x] ELSE None]

Orders(S) == {o \in [1..Cardinality(S) -> S] : \A i, j \in DOMAIN o : o[i] = o[j] => i = j}

Unread(k) == {x \in ReadBy(k) : pending[x] # "none"}

Taking_reads(k, o) ==
  LET taken == {o[i] : i \in DOMAIN o} IN
  /\ lastTaken' = [p \in Participants |-> IF p \in taken THEN pending[p] ELSE lastTaken[p]]
  /\ UNCHANGED <<alive, pending, stamp, now, changes, departures>>

Taking(k, o) ==
  LET taken == {o[i] : i \in DOMAIN o} IN
  /\ pending' = [x \in Entities |-> IF x \in taken THEN "none" ELSE pending[x]]
  /\ lastTaken' = [p \in Participants |-> IF p \in taken THEN pending[p] ELSE lastTaken[p]]
  /\ UNCHANGED <<alive, stamp, now, changes, departures>>

Filled(k, o) == [sinks EXCEPT ![k] = @ \o [i \in DOMAIN o |-> Sample(o[i])]]

(* A pass that took everything hands the sinks over, reads the clock and   *)
(* acquires the pass lock.                                                 *)
Take(k) ==
  /\ pc = Readers[k]
  /\ \E o \in Orders(Unread(k)) :
       /\ Taking(k, o)
       /\ IF k < 3
          THEN /\ pc' = Readers[k + 1]
               /\ sinks' = Filled(k, o)
               /\ UNCHANGED <<batch, passNow, logged>>
          ELSE /\ pc' = "apply"
               /\ batch' = Filled(k, o)
               /\ sinks' = EmptySinks
               /\ passNow' = now
               /\ logged' = Len(life.events)
  /\ UNCHANGED <<caches, cur, stage, moving, failures>>

(* run_pass swallows the exception; the next pass starts over.             *)
TakeRaises_drops(k) ==
  /\ pc = Readers[k]
  /\ failures < MaxFailures
  /\ failures' = failures + 1
  /\ \E S \in SUBSET Unread(k) : \E o \in Orders(S) : Taking(k, o)
  /\ sinks' = EmptySinks
  /\ pc' = Readers[1]
  /\ UNCHANGED <<caches, batch, cur, stage, moving, passNow, logged>>

TakeRaises(k) ==
  /\ pc = Readers[k]
  /\ failures < MaxFailures
  /\ failures' = failures + 1
  /\ \E S \in SUBSET Unread(k) : \E o \in Orders(S) :
       /\ Taking(k, o)
       /\ sinks' = Filled(k, o)
  /\ pc' = Readers[1]
  /\ UNCHANGED <<caches, batch, cur, stage, moving, passNow, logged>>

-----------------------------------------------------------------------------
(* apply_builtin_samples, under the pass lock: the participants by DDS     *)
(* timestamp (a stable sort), then the publications, then the              *)
(* subscriptions.                                                          *)
Earliest(ss) ==
  CHOOSE i \in 1..Len(ss) :
    \A j \in 1..Len(ss) : ss[i].at < ss[j].at \/ (ss[i].at = ss[j].at /\ i <= j)

PickParticipant ==
  /\ pc = "apply" /\ stage = "next" /\ batch[1] # <<>>
  /\ LET i == Earliest(batch[1])
         s == batch[1][i]
     IN /\ batch' = [batch EXCEPT ![1] = Without(@, i)]
        /\ cur' = s
        /\ stage' = IF s.kind = "alive" THEN "put" ELSE "mark"
        /\ IF s.kind = "gone" THEN UNCHANGED caches ELSE ApplySeen(s.id, s.at, passNow)
  /\ UNCHANGED <<bus, pc, sinks, moving, passNow, failures, history>>

PutAlive ==
  /\ stage = "put"
  /\ ApplyAlive(cur.id)
  /\ stage' = "next"
  /\ cur' = NoSample
  /\ UNCHANGED <<bus, pc, sinks, batch, moving, passNow, failures, history>>

Listed(m, from) == [i \in 1..Len(m) |-> [from |-> from, id |-> m[i].key]]

Mark_writersOnly ==
  /\ stage = "mark"
  /\ MarkGone(cur.id, cur.at)
  /\ stage' = "depart"
  /\ moving' = Listed(live["writer"], "live") \o Listed(recent, "recent")
  /\ UNCHANGED <<bus, pc, sinks, batch, cur, passNow, failures, history>>

Mark ==
  /\ stage = "mark"
  /\ MarkGone(cur.id, cur.at)
  /\ stage' = "depart"
  /\ moving' = Listed(live["writer"], "live") \o Listed(live["reader"], "live")
                \o Listed(recent, "recent")
  /\ UNCHANGED <<bus, pc, sinks, batch, cur, passNow, failures, history>>

Depart ==
  /\ stage = "depart" /\ moving # <<>>
  /\ IF Head(moving).from = "live"
     THEN DepartLive(cur.id, Head(moving).id, cur.at)
     ELSE DepartRecent(cur.id, Head(moving).id, cur.at, passNow)
  /\ moving' = Tail(moving)
  /\ UNCHANGED <<bus, pc, sinks, batch, cur, stage, passNow, failures, history>>

RecordLoss ==
  /\ stage = "depart" /\ moving = <<>>
  /\ IF cur.kind = "bornGone" THEN ApplyBornGone(cur.id, passNow)
     ELSE ApplyGone(cur.id, cur.at, passNow)
  /\ stage' = "next"
  /\ cur' = NoSample
  /\ UNCHANGED <<bus, pc, sinks, batch, moving, passNow, failures, history>>

ApplyEndpoint(k) ==
  /\ pc = "apply" /\ stage = "next" /\ batch[k] # <<>>
  /\ \A j \in 1..(k - 1) : batch[j] = <<>>
  /\ IF Head(batch[k]).kind = "alive" THEN ApplyAnnounced(Head(batch[k]).id)
     ELSE ApplyRemoved(Head(batch[k]).id, passNow)
  /\ batch' = [batch EXCEPT ![k] = Tail(@)]
  /\ UNCHANGED <<bus, pc, sinks, cur, stage, moving, passNow, failures, history>>

PassDone ==
  /\ pc = "apply" /\ stage = "next" /\ batch = EmptySinks
  /\ pc' = Readers[1]
  /\ passNow' = 1
  /\ logged' = 0
  /\ UNCHANGED <<bus, caches, sinks, batch, cur, stage, moving, failures, lastTaken>>

Apply == PickParticipant \/ PutAlive \/ Mark \/ Depart \/ RecordLoss
         \/ (\E k \in 2..3 : ApplyEndpoint(k)) \/ PassDone

Pass == (\E k \in 1..3 : Take(k) \/ TakeRaises(k)) \/ Apply

Next ==
  \/ \E x \in Entities : Appears(x) \/ Leaves(x)
  \/ Tick
  \/ Pass

Spec == Init /\ [][Next]_vars

(* _run loops until it is stopped: the thread always takes its next step.  *)
(* Endpoints of a departed participant are disposed by the middleware.     *)
FairSpec ==
  /\ Spec
  /\ WF_vars(Pass)
  /\ \A e \in Endpoints : WF_vars(OwnerOf[e] \notin alive /\ Leaves(e))

-----------------------------------------------------------------------------
LiveKeys == UNION {Keys(live[r]) : r \in Roles}

ActiveIn(p) == IsKnown(life, p) /\ StatusOf(life, p) = "active"
LeftIn(p)   == IsKnown(life, p) /\ StatusOf(life, p) = "left"

BoundedMap(m, K, n) == IsMap(m) /\ Keys(m) \subseteq K /\ Len(m) <= n

SampleType == [id : Entities, kind : {"alive", "bornGone", "gone"}, at : 0..MaxTime]

(* Types, and the bounds of every structure the thread grows.              *)
TypeOK ==
  /\ BoundedMap(life.participants, Participants, MaxParticipants)
  /\ Len(life.events) <= MaxEvents
  /\ BoundedMap(cached, Participants, MaxCached)
  /\ \A r \in Roles : BoundedMap(live[r], {e \in Endpoints : RoleOf[e] = r}, MaxCached)
  /\ BoundedMap(departed, Endpoints, MaxDeparted)
  /\ BoundedMap(recent, Endpoints, MaxRecent)
  /\ BoundedMap(roles, Endpoints, MaxRoles)
  /\ BoundedMap(gone, Participants, MaxGone)
  /\ alive \subseteq Entities
  /\ pending \in [Entities -> {"none", "alive", "bornGone", "gone"}]
  /\ stamp \in [Participants -> 0..MaxTime]
  /\ now \in 1..MaxTime
  /\ pc \in {"participants", "publications", "subscriptions", "apply"}
  /\ \A k \in 1..3 : \A i \in 1..Len(sinks[k]) : sinks[k][i] \in SampleType
  /\ \A k \in 1..3 : \A i \in 1..Len(batch[k]) : batch[k][i] \in SampleType
  /\ cur \in SampleType \cup {NoSample}
  /\ stage \in {"next", "put", "mark", "depart"}

NoOrphan == \A e \in LiveKeys : OwnerOf[e] \notin Keys(gone)
RolesKnown ==
  \A e \in Keys(recent) : e \in Keys(roles) /\ At(roles, e).role = RoleOf[e]

(* "a reader never sees a participant recorded but not yet cached": in     *)
(* every snapshot the participants cache and the active participants of    *)
(* the lifecycle are the same, those gone are the ones that left, and no   *)
(* endpoint of theirs is live, although it may have been announced in the  *)
(* pass before, in the same one or after the departure was taken; and every*)
(* endpoint recently removed can be dated and placed by removal_roles: the *)
(* fallback of _depart ("writer", long ago) is never used.                 *)
SnapshotWhole ==
  /\ LockFree =>
       /\ \A p \in Participants :
            /\ p \in Keys(cached) <=> ActiveIn(p)
            /\ p \in Keys(gone) <=> LeftIn(p)
       /\ NoOrphan
  /\ RolesKnown

(* "never loses a taken sample": once every sample of a participant is     *)
(* applied, its status is what the last one taken says, although takes     *)
(* raise, samples wait in the sinks and a batch is applied in time order;  *)
(* and the log never counts more departures of it than there were.         *)
LossesAreTrue ==
  \A p \in Participants :
    /\ LockFree /\ (\A i \in 1..Len(sinks[1]) : sinks[1][i].id # p) =>
         /\ lastTaken[p] = "alive" => ActiveIn(p)
         /\ lastTaken[p] \in {"bornGone", "gone"} => LeftIn(p)
    /\ Cardinality({i \in 1..Len(life.events) :
                      life.events[i].guid = p /\ life.events[i].type = "lost"})
         <= departures[p]

(* Once the bus is quiet the live caches mirror its participants and show  *)
(* no endpoint that is not there, failed takes notwithstanding.            *)
ViewConverges ==
  <>[](Keys(cached) = alive \cap Participants /\ LiveKeys \subseteq alive)

(* When a participant's loss is recorded, none of its endpoints is still   *)
(* live or merely remembered as removed.                                   *)
DepartsWhole ==
  [][\A p \in Participants :
       (ActiveIn(p) /\ LeftIn(p)') =>
         \A e \in Owned(p) : e \notin LiveKeys' /\ e \notin Keys(recent)']_vars

=============================================================================

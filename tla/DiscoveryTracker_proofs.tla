---------------------- MODULE DiscoveryTracker_proofs ----------------------
(***************************************************************************)
(* DiscoveryTracker proved for every finite set of participants and        *)
(* endpoints, every capacity of the caches, and every bound of the clock,  *)
(* the changes and the failures.                                           *)
(***************************************************************************)
EXTENDS DiscoveryTracker, OrderedMapLemmas

-----------------------------------------------------------------------------
(* The lifecycle buffer.                                                   *)
Status == [status : {"active", "left"}, lost : Nat]
LogEntry == [guid : Participants, type : {"discovered", "lost"}, at : Nat,
             source : {Local, Dds}, observed : Nat]

LifeType(l) ==
  /\ l \in [participants : MapOf(Participants, Status), events : Seq(LogEntry)]
  /\ IsMap(l.participants) /\ Len(l.participants) <= MaxParticipants
  /\ Len(l.events) <= MaxEvents

LossesOf(p) == {e \in LogEntry : e.guid = p /\ e.type = "lost"}
Losses(l, p) == Cardinality(Hits(l.events, LossesOf(p)))

LEMMA LifeFields ==
  ASSUME NEW l, LifeType(l)
  PROVE  /\ l.participants \in MapOf(Participants, Status) /\ IsMap(l.participants)
         /\ Len(l.participants) \in Nat /\ Len(l.participants) <= MaxParticipants
         /\ l.events \in Seq(LogEntry) /\ Len(l.events) <= MaxEvents
         /\ MaxParticipants \in Nat \ {0} /\ MaxEvents \in Nat \ {0}
         /\ \A p : IsKnown(l, p) => p \in Participants /\ StatusOf(l, p) \in {"active", "left"}
         /\ \A p : Losses(l, p) \in Nat
<1>1. /\ l.participants \in MapOf(Participants, Status) /\ IsMap(l.participants)
      /\ l.events \in Seq(LogEntry)
  BY DEF LifeType
<1>2. \A p : IsKnown(l, p) => p \in Participants /\ StatusOf(l, p) \in {"active", "left"}
  <2> SUFFICES ASSUME NEW p \in Keys(l.participants)
               PROVE  p \in Participants /\ At(l.participants, p).status \in {"active", "left"}
    BY DEF IsKnown, StatusOf
  <2>1. p \in Participants /\ At(l.participants, p) \in Status  BY <1>1, MapValues
  <2> QED  BY <2>1 DEF Status
<1>3. \A p : Losses(l, p) \in Nat  BY <1>1, HitsFinite DEF Losses
<1> QED  BY <1>1, <1>2, <1>3, BoundsAssumption DEF LifeType, MapOf

(* Making room takes entries away and changes none.                        *)
LEMMA EvictedLife ==
  ASSUME NEW m \in MapOf(Participants, Status), IsMap(m), Len(m) >= 1
  PROVE  /\ EvictParticipant(m) \in MapOf(Participants, Status)
         /\ IsMap(EvictParticipant(m))
         /\ Len(EvictParticipant(m)) = Len(m) - 1
         /\ Submap(EvictParticipant(m), m)
<1>0. Len(m) \in Nat  BY DEF MapOf
<1>1. \E v \in 1..Len(m) : EvictParticipant(m) = Without(m, v)
  <2>1. CASE \E i \in 1..Len(m) : IsLeft(m, i)
    <3> DEFINE First(i) == IsLeft(m, i) /\ \A j \in 1..(i - 1) : ~IsLeft(m, j)
               L == {i \in 1..Len(m) : IsLeft(m, i)}
               v == CHOOSE i \in 1..Len(m) : First(i)
    <3>1. L # {} /\ L \in SUBSET Nat  BY <2>1
    <3>2. PICK i \in L : \A j \in L : i <= j  BY <3>1, LeastElement
    <3>3. v \in 1..Len(m)  BY <1>0, <3>2
    <3>4. EvictParticipant(m) = Without(m, v)  BY <2>1 DEF EvictParticipant
    <3> QED  BY <3>3, <3>4
  <2>2. CASE ~ \E i \in 1..Len(m) : IsLeft(m, i)
    <3>1. EvictParticipant(m) = Without(m, 1) /\ 1 \in 1..Len(m)
      BY <1>0, <2>2 DEF EvictParticipant
    <3> QED  BY <3>1
  <2> QED  BY <2>1, <2>2
<1>2. PICK v \in 1..Len(m) : EvictParticipant(m) = Without(m, v)  BY <1>1
<1>3. /\ Without(m, v) \in MapOf(Participants, Status)
      /\ Len(Without(m, v)) = Len(m) - 1
      /\ IsMap(Without(m, v))
      /\ Among(Without(m, v), m)
  BY WithoutMap DEF Among
<1> QED  BY <1>2, <1>3, AmongSubmap

(* m[g] = v in a map that had room for it.                                 *)
LEMMA AssignedLife ==
  ASSUME NEW m \in MapOf(Participants, Status), IsMap(m), Len(m) <= MaxParticipants,
         NEW p \in Participants, NEW v \in Status,
         p \in Keys(m) \/ Len(m) < MaxParticipants
  PROVE  /\ Assign(m, p, v) \in MapOf(Participants, Status) /\ IsMap(Assign(m, p, v))
         /\ Len(Assign(m, p, v)) <= MaxParticipants
         /\ Keys(Assign(m, p, v)) = Keys(m) \cup {p}
         /\ At(Assign(m, p, v), p) = v
         /\ \A q \in Keys(m) \ {p} : At(Assign(m, p, v), q) = At(m, q)
<1>1. Len(Assign(m, p, v)) = IF p \in Keys(m) THEN Len(m) ELSE Len(m) + 1  BY AssignMap
<1>2. Len(m) \in Nat /\ MaxParticipants \in Nat  BY BoundsAssumption DEF MapOf
<1> QED  BY <1>1, <1>2, AssignValues

(* A sighting of p: p is active, the others are what they were or, when    *)
(* the map is full, forgotten; nobody is lost.                             *)
LEMMA SeenLife ==
  ASSUME NEW l, LifeType(l), NEW p \in Participants, NEW t \in Nat, NEW a \in Nat,
         NEW n, n = RecordSeen(l, p, t, a)
  PROVE  /\ LifeType(n)
         /\ IsKnown(n, p) /\ StatusOf(n, p) = "active"
         /\ \A q : q # p /\ IsKnown(n, q) => IsKnown(l, q) /\ StatusOf(n, q) = StatusOf(l, q)
         /\ IsKnown(l, p) \/ Len(l.participants) < MaxParticipants =>
              \A q : IsKnown(l, q) => IsKnown(n, q)
         /\ \A q : Losses(n, q) <= Losses(l, q)
<1> DEFINE m == l.participants
           room == IF ~IsKnown(l, p) /\ Len(m) >= MaxParticipants THEN EvictParticipant(m) ELSE m
           e == Discovered(p, t, a)
<1>0. /\ m \in MapOf(Participants, Status) /\ IsMap(m) /\ Len(m) \in Nat /\ Len(m) <= MaxParticipants
      /\ l.events \in Seq(LogEntry) /\ Len(l.events) <= MaxEvents
      /\ MaxParticipants \in Nat \ {0} /\ MaxEvents \in Nat \ {0}
      /\ \A q : Losses(l, q) \in Nat
  BY LifeFields
<1>1. /\ room \in MapOf(Participants, Status) /\ IsMap(room) /\ Len(room) <= MaxParticipants
      /\ Submap(room, m)
      /\ p \in Keys(room) \/ Len(room) < MaxParticipants
      /\ IsKnown(l, p) \/ Len(m) < MaxParticipants => room = m
  <2>1. CASE ~IsKnown(l, p) /\ Len(m) >= MaxParticipants
    <3> HIDE DEF m
    <3>1. room = EvictParticipant(m) /\ Len(m) >= 1  BY <1>0, <2>1
    <3> HIDE DEF room
    <3> QED  BY <1>0, <2>1, <3>1, EvictedLife
  <2>2. CASE ~(~IsKnown(l, p) /\ Len(m) >= MaxParticipants)
    <3>1. room = m  BY <2>2
    <3>2. IsKnown(l, p) <=> p \in Keys(m)  BY DEF IsKnown
    <3> HIDE DEF room, m
    <3> QED  BY <1>0, <2>2, <3>1, <3>2 DEF Submap
  <2> QED  BY <2>1, <2>2
<1>2. Active \in Status /\ Active.status = "active"  BY DEF Active, Status, None
<1>3. e \in LogEntry /\ e.type = "discovered"
  BY DEF Discovered, Event, LogEntry, Local, Dds
<1> DEFINE ns == Assign(room, p, Active)
           es == IF IsKnown(l, p) /\ StatusOf(l, p) = "active" THEN l.events
                 ELSE Push(l.events, e, MaxEvents)
<1>4. n.participants = ns /\ n.events = es /\ n = [participants |-> ns, events |-> es]
  BY DEF RecordSeen
<1> HIDE DEF room
<1>5. /\ ns \in MapOf(Participants, Status) /\ IsMap(ns) /\ Len(ns) <= MaxParticipants
      /\ Keys(ns) = Keys(room) \cup {p} /\ At(ns, p) = Active
      /\ \A q \in Keys(room) \ {p} : At(ns, q) = At(room, q)
  BY <1>1, <1>2, AssignedLife
<1> HIDE DEF ns, e
<1>6. /\ es \in Seq(LogEntry) /\ Len(es) <= MaxEvents
      /\ \A q : Cardinality(Hits(es, LossesOf(q))) <= Losses(l, q)
  <2>1. \A q : e \notin LossesOf(q)  BY <1>3 DEF LossesOf
  <2>2. CASE es = l.events  BY <1>0, <2>2 DEF Losses
  <2>3. CASE es = Push(l.events, e, MaxEvents)
    <3>1. es \in Seq(LogEntry) /\ Len(es) <= MaxEvents  BY <1>0, <1>3, <2>3, PushElements
    <3>2. ASSUME NEW q PROVE Cardinality(Hits(es, LossesOf(q))) <= Losses(l, q)
      <4>1. Cardinality(Hits(es, LossesOf(q)))
              <= Cardinality(Hits(l.events, LossesOf(q))) + (IF e \in LossesOf(q) THEN 1 ELSE 0)
        BY <1>0, <1>3, <2>3, HitsPush
      <4>2. Cardinality(Hits(l.events, LossesOf(q))) \in Nat  BY <1>0 DEF Losses
      <4> QED  BY <2>1, <4>1, <4>2 DEF Losses
    <3> QED  BY <3>1, <3>2
  <2> QED  BY <2>2, <2>3
<1> HIDE DEF es
<1>7. LifeType(n)  BY <1>4, <1>5, <1>6 DEF LifeType
<1>8. IsKnown(n, p) /\ StatusOf(n, p) = "active"  BY <1>2, <1>4, <1>5 DEF IsKnown, StatusOf
<1>9. \A q : q # p /\ IsKnown(n, q) => IsKnown(l, q) /\ StatusOf(n, q) = StatusOf(l, q)
  BY <1>1, <1>4, <1>5 DEF IsKnown, StatusOf, Submap
<1>10. IsKnown(l, p) \/ Len(m) < MaxParticipants => \A q : IsKnown(l, q) => IsKnown(n, q)
  BY <1>1, <1>4, <1>5 DEF IsKnown
<1>11. \A q : Losses(n, q) <= Losses(l, q)  BY <1>4, <1>6 DEF Losses
<1> QED  BY <1>7, <1>8, <1>9, <1>10, <1>11

(* A loss of p, whom the buffer knows: p left, the others are what they    *)
(* were, and the log has at most one loss more, p's.                       *)
LEMMA LostLife ==
  ASSUME NEW l, LifeType(l), NEW p, IsKnown(l, p), NEW t \in Nat, NEW a \in Nat,
         NEW n, n = RecordLost(l, p, t, a)
  PROVE  /\ LifeType(n)
         /\ StatusOf(n, p) = "left"
         /\ \A q : IsKnown(n, q) <=> IsKnown(l, q)
         /\ \A q : q # p => StatusOf(n, q) = StatusOf(l, q) \/ ~IsKnown(n, q)
         /\ \A q : Losses(n, q) <= Losses(l, q) + (IF q = p THEN 1 ELSE 0)
<1> DEFINE m == l.participants
           at == IF a = None THEN t ELSE a
           e == Event(p, "lost", at, IF a = None THEN Local ELSE Dds, t)
           v == [status |-> "left", lost |-> at]
<1>0. /\ m \in MapOf(Participants, Status) /\ IsMap(m) /\ Len(m) \in Nat /\ Len(m) <= MaxParticipants
      /\ l.events \in Seq(LogEntry) /\ Len(l.events) <= MaxEvents
      /\ MaxParticipants \in Nat \ {0} /\ MaxEvents \in Nat \ {0}
      /\ p \in Participants /\ p \in Keys(m)
      /\ \A q : Losses(l, q) \in Nat
  BY LifeFields DEF IsKnown
<1>1. CASE StatusOf(l, p) = "left"
  <2>1. n = l  BY <1>1 DEF RecordLost
  <2> QED  BY <1>0, <1>1, <2>1
<1>2. CASE StatusOf(l, p) # "left"
  <2>1. at \in Nat  BY DEF None
  <2>2. v \in Status /\ e \in LogEntry /\ e.guid = p
    BY <1>0, <2>1 DEF Status, Event, LogEntry, Local, Dds
  <2> DEFINE ns == Assign(m, p, v)
             es == Push(l.events, e, MaxEvents)
  <2>3. n.participants = ns /\ n.events = es /\ n = [participants |-> ns, events |-> es]
    BY <1>2 DEF RecordLost
  <2>4. /\ ns \in MapOf(Participants, Status) /\ IsMap(ns) /\ Len(ns) <= MaxParticipants
        /\ Keys(ns) = Keys(m) \cup {p} /\ At(ns, p) = v
        /\ \A q \in Keys(m) \ {p} : At(ns, q) = At(m, q)
    <3> HIDE DEF m, v
    <3> QED  BY <1>0, <2>2, AssignedLife
  <2>5. v.status = "left"  OBVIOUS
  <2> HIDE DEF ns, v, e
  <2>6. es \in Seq(LogEntry) /\ Len(es) <= MaxEvents  BY <1>0, <2>2, PushElements
  <2>7. ASSUME NEW q PROVE Cardinality(Hits(es, LossesOf(q))) <= Losses(l, q) + (IF q = p THEN 1 ELSE 0)
    <3>1. Cardinality(Hits(es, LossesOf(q)))
            <= Cardinality(Hits(l.events, LossesOf(q))) + (IF e \in LossesOf(q) THEN 1 ELSE 0)
      BY <1>0, <2>2, HitsPush
    <3>2. Cardinality(Hits(es, LossesOf(q))) \in Nat  BY <2>6, HitsFinite
    <3>3. e \in LossesOf(q) => q = p  BY <2>2 DEF LossesOf
    <3> QED  BY <1>0, <3>1, <3>2, <3>3 DEF Losses
  <2> HIDE DEF es
  <2>8. LifeType(n)  BY <2>3, <2>4, <2>6 DEF LifeType
  <2>9. \A q : Losses(n, q) <= Losses(l, q) + (IF q = p THEN 1 ELSE 0)
    BY <2>3, <2>7 DEF Losses
  <2> QED  BY <1>0, <2>3, <2>4, <2>5, <2>8, <2>9 DEF IsKnown, StatusOf
<1> QED  BY <1>1, <1>2

-----------------------------------------------------------------------------
(* The invariant, part by part.  Types: what every variable holds, each    *)
(* structure of the thread within its bound.                               *)
Dead  == {"bornGone", "gone"}
Kinds == {"alive"} \cup Dead

SampleOf(k) == [id : ReadBy(k), kind : Kinds, at : 0..MaxTime]
Move        == [from : {"live", "recent"}, id : Endpoints]
Dated       == [role : Roles, at : Nat]
Departed    == [role : Roles, gone : Nat]

CachesType ==
  /\ LifeType(life)
  /\ cached \in MapOf(Participants, Participants) /\ IsMap(cached) /\ Len(cached) <= MaxCached
  /\ live \in [Roles -> MapOf(Endpoints, Participants)]
  /\ \A r \in Roles : IsMap(live[r]) /\ Len(live[r]) <= MaxCached
  /\ departed \in MapOf(Endpoints, Departed) /\ IsMap(departed) /\ Len(departed) <= MaxDeparted
  /\ recent \in MapOf(Endpoints, Participants) /\ IsMap(recent) /\ Len(recent) <= MaxRecent
  /\ roles \in MapOf(Endpoints, Dated) /\ IsMap(roles) /\ Len(roles) <= MaxRoles
  /\ gone \in MapOf(Participants, Nat) /\ IsMap(gone) /\ Len(gone) <= MaxGone

BusType ==
  /\ alive \subseteq Entities
  /\ pending \in [Entities -> Kinds \cup {"none"}]
  /\ stamp \in [Participants -> 0..MaxTime]
  /\ now \in 1..MaxTime
  /\ lastTaken \in [Participants -> Kinds \cup {"none"}]
  /\ departures \in [Participants -> Nat]

ThreadType ==
  /\ pc \in {"participants", "publications", "subscriptions", "apply"}
  /\ DOMAIN sinks = 1..3 /\ \A k \in 1..3 : sinks[k] \in Seq(SampleOf(k))
  /\ DOMAIN batch = 1..3 /\ \A k \in 1..3 : batch[k] \in Seq(SampleOf(k))
  /\ cur \in SampleOf(1) \cup {NoSample}
  /\ stage \in {"next", "put", "mark", "depart"}
  /\ moving \in Seq(Move)
  /\ passNow \in 1..MaxTime

(* Control: a batch is held only while it is applied, nothing waits in the *)
(* sinks meanwhile, and the sample in hand is the one its stage is for.    *)
Control ==
  /\ pc # "apply" => stage = "next" /\ batch[1] = <<>>
  /\ pc = "apply" => sinks[1] = <<>>
  /\ stage = "next" <=> cur = NoSample
  /\ stage = "put" => cur.kind = "alive"
  /\ stage \in {"mark", "depart"} => cur.kind \in Dead

Types == CachesType /\ BusType /\ ThreadType /\ Control

(* Placed: an endpoint is kept under its own role and owner, and one that  *)
(* was recently removed can be dated and placed.                           *)
Placed ==
  /\ \A r \in Roles : \A e \in Keys(live[r]) : RoleOf[e] = r /\ At(live[r], e) = OwnerOf[e]
  /\ \A e \in Keys(recent) : e \in Keys(roles) /\ At(recent, e) = OwnerOf[e]
  /\ \A e \in Keys(roles) : At(roles, e).role = RoleOf[e]

(* Departing: every endpoint of the participant that departs is still to   *)
(* be visited, and only such an endpoint may be live though its owner is   *)
(* gone.                                                                   *)
InMoving(from, e) == \E i \in 1..Len(moving) : moving[i] = [from |-> from, id |-> e]

Departing ==
  /\ stage = "depart" =>
       /\ \A e \in LiveKeys : OwnerOf[e] = cur.id => InMoving("live", e)
       /\ \A e \in Keys(recent) : OwnerOf[e] = cur.id => InMoving("recent", e)
  /\ \A e \in LiveKeys : OwnerOf[e] \in Keys(gone) => stage = "depart" /\ OwnerOf[e] = cur.id

(* Room for every participant in the three maps that are keyed by them: in *)
(* the code 4096, 1000 and 4096.                                           *)
RoomForAll == Cardinality(Participants) <= MaxCached /\ Cardinality(Participants) <= MaxGone
              /\ Cardinality(Participants) <= MaxParticipants

(* Agree: but for the participant whose sample is in hand, caches and      *)
(* lifecycle never contradict each other and, with room for all, say the   *)
(* same.                                                                   *)
Agrees(p) ==
  /\ p \in Keys(cached) => ~LeftIn(p)
  /\ p \in Keys(gone) => ~ActiveIn(p)
  /\ RoomForAll => /\ p \in Keys(cached) <=> ActiveIn(p)
                   /\ p \in Keys(gone) <=> LeftIn(p)

Agree ==
  /\ \A p \in Participants \ {cur.id} : Agrees(p)
  /\ stage = "put" \/ cur.kind = "bornGone" => ActiveIn(cur.id)
  /\ stage = "depart" => cur.id \in Keys(gone)

(* Queued: the participant samples that are taken and not applied are, for *)
(* each participant, in the order of their timestamps; the last one, or    *)
(* the one in hand, or the status they left, is of the kind last taken.    *)
Queue == IF pc = "apply" THEN batch[1] ELSE sinks[1]

Last(q, i) == \A j \in 1..Len(q) : j > i => q[j].id # q[i].id

InOrder(q) ==
  /\ \A i \in 1..Len(q) : q[i].at <= stamp[q[i].id]
  /\ \A i, j \in 1..Len(q) : i < j /\ q[i].id = q[j].id => q[i].at <= q[j].at
  /\ \A i \in 1..Len(q) : Last(q, i) => q[i].kind = lastTaken[q[i].id]

Holds(q, p) == \E i \in 1..Len(q) : q[i].id = p

Shows(p) ==
  /\ lastTaken[p] = "alive" => ~LeftIn(p) /\ (RoomForAll => ActiveIn(p))
  /\ lastTaken[p] \in Dead => ~ActiveIn(p) /\ (RoomForAll => LeftIn(p))

Queued ==
  /\ \A p \in Participants : stamp[p] <= now
  /\ InOrder(Queue)
  /\ \A p \in Participants : ~Holds(Queue, p) =>
       IF cur.id = p THEN cur.kind = lastTaken[p] ELSE Shows(p)

(* Counted: every loss in the log, or on its way to it, is a departure.    *)
DeathsOf(p) == {s \in SampleOf(1) : s.id = p /\ s.kind \in Dead}

Inflight(p) ==
  Cardinality(Hits(Queue, DeathsOf(p))) + (IF cur.id = p /\ cur.kind \in Dead THEN 1 ELSE 0)
    + (IF pending[p] \in Dead THEN 1 ELSE 0)

Counted == \A p \in Participants : Losses(life, p) + Inflight(p) <= departures[p]

IInv == Types /\ Placed /\ Departing /\ Agree /\ Queued /\ Counted

-----------------------------------------------------------------------------
(* What each operation on the caches does, as later steps need it.         *)
LEMMA Capacities ==
  /\ {MaxCached, MaxGone, MaxDeparted, MaxRecent} \subseteq Nat \ {0}
  /\ MaxCached \in Nat \ {0} /\ MaxGone \in Nat \ {0}
  /\ MaxDeparted \in Nat \ {0} /\ MaxRecent \in Nat \ {0}
  /\ MaxRoles \in Nat /\ MaxRecent <= MaxRoles
  /\ OwnerOf \in [Endpoints -> Participants] /\ RoleOf \in [Endpoints -> Roles]
BY CapacityAssumption, EndpointAssumption

LEMMA RoomToPut ==
  ASSUME NEW V, NEW m \in MapOf(Participants, V), IsMap(m), NEW p \in Participants,
         NEW v \in V, NEW n \in Nat \ {0}, Cardinality(Participants) <= n
  PROVE  Keys(Put(m, p, v, n)) = Keys(m) \cup {p}
<1> DEFINE w == Pop(m, p)
<1>1. w \in MapOf(Participants, V) /\ IsMap(w) /\ Keys(w) = Keys(m) \ {p}  BY PopValues
<1> HIDE DEF w
<1>2. Keys(w) \subseteq Participants /\ p \notin Keys(w)  BY <1>1, MapValues
<1>3. Len(w) < Cardinality(Participants)  BY <1>1, <1>2, EntityAssumption, MapLacks
<1>4. Len(w) \in Nat /\ Cardinality(Participants) \in Nat
  BY <1>1, EntityAssumption, FS_CardinalityType DEF MapOf
<1>5. Len(w) < n  BY <1>3, <1>4
<1> QED  BY <1>5, PutValues DEF w

LEMMA AnnouncedDoes ==
  ASSUME CachesType, NEW e \in Endpoints, ApplyAnnounced(e)
  PROVE  /\ CachesType' /\ UNCHANGED <<life, cached, recent, roles, gone>>
         /\ \A r \in Roles : \A f \in Keys(live'[r]) :
              \/ f \in Keys(live[r]) /\ At(live'[r], f) = At(live[r], f)
              \/ /\ f = e /\ r = RoleOf[e] /\ At(live'[r], f) = OwnerOf[e]
                 /\ OwnerOf[e] \notin Keys(gone)
<1>0. OwnerOf[e] \in Participants /\ RoleOf[e] \in Roles  BY Capacities
<1>1. CASE OwnerOf[e] \in Keys(gone)
  <2> DEFINE v == [role |-> RoleOf[e], gone |-> At(gone, OwnerOf[e])]
  <2>1. /\ departed' = Put(departed, e, v, MaxDeparted)
        /\ UNCHANGED <<life, cached, live, recent, roles, gone>>
    BY <1>1 DEF ApplyAnnounced
  <2>2. v \in Departed
    <3>1. At(gone, OwnerOf[e]) \in Nat  BY <1>1, MapValues DEF CachesType
    <3> QED  BY <1>0, <3>1 DEF Departed
  <2> HIDE DEF v
  <2>3. departed \in MapOf(Endpoints, Departed) /\ IsMap(departed)  BY DEF CachesType
  <2>4. /\ departed' \in MapOf(Endpoints, Departed) /\ IsMap(departed')
        /\ Len(departed') <= MaxDeparted
    BY <2>1, <2>2, <2>3, Capacities, PutValues
  <2>5. CachesType'  BY <2>1, <2>4 DEF CachesType
  <2> QED  BY <2>1, <2>5
<1>2. CASE OwnerOf[e] \notin Keys(gone)
  <2> DEFINE r == RoleOf[e]
             new == Put(live[r], e, OwnerOf[e], MaxCached)
  <2>1. /\ live' = [live EXCEPT ![r] = new]
        /\ UNCHANGED <<life, cached, departed, recent, roles, gone>>
    BY <1>2 DEF ApplyAnnounced
  <2>2. /\ live[r] \in MapOf(Endpoints, Participants) /\ IsMap(live[r])
        /\ live \in [Roles -> MapOf(Endpoints, Participants)]
    BY <1>0 DEF CachesType
  <2>3. /\ new \in MapOf(Endpoints, Participants) /\ IsMap(new) /\ Len(new) <= MaxCached
        /\ At(new, e) = OwnerOf[e] /\ Keys(new) \subseteq Keys(live[r]) \cup {e}
        /\ \A j \in Keys(new) \ {e} : At(new, j) = At(live[r], j)
    BY <1>0, <2>2, Capacities, PutValues
  <2> HIDE DEF new
  <2>4. live'[r] = new /\ \A q \in Roles \ {r} : live'[q] = live[q]  BY <1>0, <2>1, <2>2
  <2>5. live' \in [Roles -> MapOf(Endpoints, Participants)]  BY <2>1, <2>2, <2>3
  <2>6. CachesType'  BY <2>1, <2>3, <2>4, <2>5 DEF CachesType
  <2> QED  BY <1>2, <2>1, <2>3, <2>4, <2>6
<1> QED  BY <1>1, <1>2

LEMMA RemovedDoes ==
  ASSUME CachesType, NEW e \in Endpoints, NEW t \in Nat, ApplyRemoved(e, t)
  PROVE  /\ CachesType' /\ UNCHANGED <<life, cached, departed, gone>>
         /\ \A r \in Roles : Submap(live'[r], live[r])
         /\ \A f \in Keys(recent') :
              \/ f \in Keys(recent) /\ At(recent', f) = At(recent, f)
              \/ /\ f = e /\ e \in Keys(live[RoleOf[e]])
                 /\ At(recent', f) = At(live[RoleOf[e]], e)
         /\ \A f \in Keys(roles') :
              \/ f \in Keys(roles) /\ At(roles', f) = At(roles, f)
              \/ f = e /\ At(roles', f).role = RoleOf[e]
         /\ Keys(recent) \subseteq Keys(roles) => Keys(recent') \subseteq Keys(roles')
<1> DEFINE r == RoleOf[e]
<1>0. r \in Roles  BY Capacities
<1>1. /\ live' = [live EXCEPT ![r] = Pop(live[r], e)]
      /\ UNCHANGED <<life, cached, departed, gone>>
  BY DEF ApplyRemoved
<1>2. /\ live \in [Roles -> MapOf(Endpoints, Participants)]
      /\ \A q \in Roles : live[q] \in MapOf(Endpoints, Participants) /\ IsMap(live[q])
      /\ \A q \in Roles : Len(live[q]) <= MaxCached /\ Len(live[q]) \in Nat
  BY MapLen DEF CachesType
<1>3. /\ Pop(live[r], e) \in MapOf(Endpoints, Participants) /\ IsMap(Pop(live[r], e))
      /\ Len(Pop(live[r], e)) <= MaxCached /\ Submap(Pop(live[r], e), live[r])
  BY <1>0, <1>2, Capacities, PopValues
<1>4. /\ live' \in [Roles -> MapOf(Endpoints, Participants)]
      /\ \A q \in Roles : /\ IsMap(live'[q]) /\ Len(live'[q]) <= MaxCached
                           /\ Submap(live'[q], live[q])
  <2>1. live'[r] = Pop(live[r], e) /\ \A q \in Roles \ {r} : live'[q] = live[q]
    BY <1>0, <1>1, <1>2
  <2> QED  BY <1>1, <1>2, <1>3, <2>1 DEF Submap
<1>5. CASE e \notin Keys(live[r])
  <2>1. UNCHANGED <<recent, roles>>  BY <1>5 DEF ApplyRemoved
  <2>2. CachesType'  BY <1>1, <1>4, <2>1 DEF CachesType
  <2> QED  BY <1>1, <1>4, <2>1, <2>2
<1>6. CASE e \in Keys(live[r])
  <2> DEFINE v == [role |-> r, at |-> t]
             a == Assign(roles, e, v)
             o == At(live[r], e)
  <2>1. recent' = Put(recent, e, o, MaxRecent) /\ roles' = Pruned(a, recent')
    BY <1>6 DEF ApplyRemoved
  <2>2. v \in Dated /\ v.role = r /\ o \in Participants  BY <1>0, <1>2, <1>6, MapValues DEF Dated
  <2>3. /\ recent \in MapOf(Endpoints, Participants) /\ IsMap(recent)
        /\ roles \in MapOf(Endpoints, Dated) /\ IsMap(roles)
    BY DEF CachesType
  <2> HIDE DEF v, o
  <2>4. /\ recent' \in MapOf(Endpoints, Participants) /\ IsMap(recent')
        /\ Len(recent') <= MaxRecent /\ Len(recent') \in Nat
        /\ At(recent', e) = o /\ Keys(recent') \subseteq Keys(recent) \cup {e}
        /\ \A f \in Keys(recent') \ {e} : At(recent', f) = At(recent, f)
    BY <2>1, <2>2, <2>3, Capacities, PutValues, MapLen
  <2>5. /\ a \in MapOf(Endpoints, Dated) /\ IsMap(a) /\ Len(a) \in Nat
        /\ Keys(a) = Keys(roles) \cup {e} /\ At(a, e) = v
        /\ \A f \in Keys(roles) \ {e} : At(a, f) = At(roles, f)
    BY <2>2, <2>3, AssignValues, MapLen
  <2> HIDE DEF a
  <2>6. /\ roles' \in MapOf(Endpoints, Dated) /\ IsMap(roles') /\ Len(roles') <= MaxRoles
        /\ Submap(roles', a)
        /\ Keys(recent') \subseteq Keys(a) => Keys(recent') \subseteq Keys(roles')
    <3>1. CASE Len(a) > MaxRoles
      <4> DEFINE b == Only(a, Keys(recent'))
      <4>1. roles' = b  BY <2>1, <3>1 DEF Pruned
      <4>2. /\ b \in MapOf(Endpoints, Dated) /\ IsMap(b) /\ Submap(b, a)
            /\ Keys(b) = Keys(a) \cap Keys(recent')
        BY <2>5, OnlyValues
      <4> HIDE DEF b
      <4>3. Len(b) <= Len(recent')  BY <2>4, <4>2, ShorterMap
      <4>4. Len(b) <= MaxRoles  BY <2>4, <4>2, <4>3, Capacities DEF MapOf
      <4> QED  BY <4>1, <4>2, <4>4
    <3>2. CASE ~(Len(a) > MaxRoles)
      <4>1. roles' = a  BY <2>1, <3>2 DEF Pruned
      <4> QED  BY <2>5, <3>2, <4>1, Capacities DEF Submap
    <3> QED  BY <3>1, <3>2
  <2>7. CachesType'  BY <1>1, <1>4, <2>4, <2>6 DEF CachesType
  <2>8. \A f \in Keys(roles') : \/ f \in Keys(roles) /\ At(roles', f) = At(roles, f)
                                \/ f = e /\ At(roles', f).role = r
    BY <2>2, <2>5, <2>6 DEF Submap
  <2>9. \A f \in Keys(recent') : \/ f \in Keys(recent) /\ At(recent', f) = At(recent, f)
                                 \/ f = e /\ e \in Keys(live[r]) /\ At(recent', f) = At(live[r], e)
    BY <1>6, <2>4 DEF o
  <2>10. Keys(recent) \subseteq Keys(roles) => Keys(recent') \subseteq Keys(roles')
    BY <2>4, <2>5, <2>6
  <2> QED  BY <1>1, <1>4, <2>7, <2>8, <2>9, <2>10
<1> QED  BY <1>5, <1>6

LEMMA MarkDoes ==
  ASSUME CachesType, NEW p \in Participants, NEW t \in Nat, MarkGone(p, t)
  PROVE  /\ CachesType' /\ UNCHANGED <<life, cached, live, departed, recent, roles>>
         /\ p \in Keys(gone') /\ Keys(gone') \subseteq Keys(gone) \cup {p}
         /\ RoomForAll => Keys(gone') = Keys(gone) \cup {p}
<1>1. /\ gone' = Put(gone, p, t, MaxGone)
      /\ UNCHANGED <<life, cached, live, departed, recent, roles>>
  BY DEF MarkGone
<1>2. gone \in MapOf(Participants, Nat) /\ IsMap(gone)  BY DEF CachesType
<1>3. /\ gone' \in MapOf(Participants, Nat) /\ IsMap(gone') /\ Len(gone') <= MaxGone
      /\ p \in Keys(gone') /\ Keys(gone') \subseteq Keys(gone) \cup {p}
  BY <1>1, <1>2, Capacities, PutValues
<1>4. ASSUME RoomForAll PROVE Keys(gone') = Keys(gone) \cup {p}
  <2>1. Cardinality(Participants) <= MaxGone /\ MaxGone \in Nat \ {0}
    BY <1>4, Capacities DEF RoomForAll
  <2> QED  BY <1>1, <1>2, <2>1, RoomToPut
<1> QED  BY <1>1, <1>3, <1>4 DEF CachesType

LEMMA DepartLiveDoes ==
  ASSUME CachesType, NEW p \in Participants, NEW e \in Endpoints, NEW t \in Nat,
         DepartLive(p, e, t)
  PROVE  /\ CachesType' /\ UNCHANGED <<life, cached, recent, roles, gone>>
         /\ \A r \in Roles : Submap(live'[r], live[r])
         /\ At(live[RoleOf[e]], e) = p => e \notin Keys(live'[RoleOf[e]])
<1> DEFINE r == RoleOf[e]
<1>0. r \in Roles  BY Capacities
<1>1. /\ live \in [Roles -> MapOf(Endpoints, Participants)]
      /\ \A q \in Roles : /\ live[q] \in MapOf(Endpoints, Participants) /\ IsMap(live[q])
                          /\ Len(live[q]) <= MaxCached /\ Len(live[q]) \in Nat
      /\ departed \in MapOf(Endpoints, Departed) /\ IsMap(departed)
  BY MapLen DEF CachesType
<1>2. UNCHANGED <<life, cached, recent, roles, gone>>  BY DEF DepartLive
<1>3. CASE At(live[r], e) = p
  <2> DEFINE v == [role |-> r, gone |-> t]
             w == Pop(live[r], e)
  <2>1. departed' = Put(departed, e, v, MaxDeparted) /\ live' = [live EXCEPT ![r] = w]
    BY <1>3 DEF DepartLive
  <2>2. v \in Departed  BY <1>0 DEF Departed
  <2> HIDE DEF v
  <2>3. /\ departed' \in MapOf(Endpoints, Departed) /\ IsMap(departed')
        /\ Len(departed') <= MaxDeparted
    BY <1>1, <2>1, <2>2, Capacities, PutValues
  <2>4. /\ w \in MapOf(Endpoints, Participants) /\ IsMap(w) /\ Submap(w, live[r])
        /\ Len(w) = (IF e \in Keys(live[r]) THEN Len(live[r]) - 1 ELSE Len(live[r]))
        /\ e \notin Keys(w)
    BY <1>0, <1>1, PopValues
  <2> HIDE DEF w
  <2>5. Len(w) <= MaxCached  BY <1>0, <1>1, <2>4, Capacities
  <2>6. live'[r] = w /\ \A q \in Roles \ {r} : live'[q] = live[q]  BY <1>0, <1>1, <2>1
  <2>7. live' \in [Roles -> MapOf(Endpoints, Participants)]  BY <1>1, <2>1, <2>4
  <2>8. \A q \in Roles : Submap(live'[q], live[q])  BY <2>4, <2>6 DEF Submap
  <2>9. CachesType'  BY <1>1, <1>2, <2>3, <2>4, <2>5, <2>6, <2>7 DEF CachesType
  <2> QED  BY <1>2, <2>4, <2>6, <2>8, <2>9
<1>4. CASE At(live[r], e) # p
  <2>1. UNCHANGED <<departed, live>>  BY <1>4 DEF DepartLive
  <2> QED  BY <1>2, <1>4, <2>1 DEF CachesType, Submap
<1> QED  BY <1>3, <1>4

LEMMA DepartRecentDoes ==
  ASSUME CachesType, NEW p \in Participants, NEW e \in Endpoints, NEW t \in Nat,
         NEW u \in Nat, DepartRecent(p, e, t, u)
  PROVE  /\ CachesType' /\ UNCHANGED <<life, cached, live, gone>>
         /\ Submap(recent', recent) /\ Submap(roles', roles)
         /\ Keys(recent) \subseteq Keys(roles) => Keys(recent') \subseteq Keys(roles')
         /\ At(recent, e) = p => e \notin Keys(recent')
<1> DEFINE tooOld == e \notin Keys(roles) \/ u - At(roles, e).at > RemovalWindow
           mine == At(recent, e) = p
           v == [role |-> IF e \in Keys(roles) THEN At(roles, e).role ELSE "writer", gone |-> t]
<1>1. /\ UNCHANGED <<life, cached, live, gone>>
      /\ IF tooOld \/ mine THEN recent' = Pop(recent, e) /\ roles' = Pop(roles, e)
         ELSE UNCHANGED <<recent, roles>>
      /\ departed' = IF ~tooOld /\ mine THEN Put(departed, e, v, MaxDeparted) ELSE departed
  BY DEF DepartRecent
<1>2. /\ recent \in MapOf(Endpoints, Participants) /\ IsMap(recent)
      /\ Len(recent) \in Nat /\ Len(recent) <= MaxRecent
      /\ roles \in MapOf(Endpoints, Dated) /\ IsMap(roles)
      /\ Len(roles) \in Nat /\ Len(roles) <= MaxRoles
      /\ departed \in MapOf(Endpoints, Departed) /\ IsMap(departed) /\ Len(departed) <= MaxDeparted
  BY MapLen DEF CachesType
<1>3. v \in Departed
  <2>1. e \in Keys(roles) => At(roles, e) \in Dated  BY <1>2, MapValues
  <2>2. e \in Keys(roles) => At(roles, e).role \in Roles  BY <2>1 DEF Dated
  <2> QED  BY <2>2 DEF Departed, Roles
<1> HIDE DEF v, tooOld
<1>4. departed' \in MapOf(Endpoints, Departed) /\ IsMap(departed') /\ Len(departed') <= MaxDeparted
  <2>1. CASE ~tooOld /\ mine
    <3>1. departed' = Put(departed, e, v, MaxDeparted)  BY <1>1, <2>1
    <3> QED  BY <1>2, <1>3, <3>1, Capacities, PutValues
  <2>2. CASE ~(~tooOld /\ mine)  BY <1>1, <1>2, <2>2
  <2> QED  BY <2>1, <2>2
<1>5. CASE tooOld \/ mine
  <2> DEFINE rc == Pop(recent, e)
             rl == Pop(roles, e)
  <2>1. recent' = rc /\ roles' = rl  BY <1>1, <1>5
  <2>2. /\ rc \in MapOf(Endpoints, Participants) /\ IsMap(rc) /\ Submap(rc, recent)
        /\ Len(rc) = (IF e \in Keys(recent) THEN Len(recent) - 1 ELSE Len(recent))
        /\ Keys(rc) = Keys(recent) \ {e}
    BY <1>2, PopValues
  <2>3. /\ rl \in MapOf(Endpoints, Dated) /\ IsMap(rl) /\ Submap(rl, roles)
        /\ Len(rl) = (IF e \in Keys(roles) THEN Len(roles) - 1 ELSE Len(roles))
        /\ Keys(rl) = Keys(roles) \ {e}
    BY <1>2, PopValues
  <2> HIDE DEF rc, rl
  <2>4. Len(rc) <= MaxRecent /\ Len(rl) <= MaxRoles  BY <1>2, <2>2, <2>3, Capacities
  <2>5. CachesType'  BY <1>1, <1>4, <2>1, <2>2, <2>3, <2>4 DEF CachesType
  <2> QED  BY <1>1, <2>1, <2>2, <2>3, <2>5
<1>6. CASE ~(tooOld \/ mine)
  <2>1. UNCHANGED <<recent, roles>>  BY <1>1, <1>6
  <2>2. CachesType'  BY <1>1, <1>4, <2>1 DEF CachesType
  <2> QED  BY <1>1, <1>6, <2>1, <2>2 DEF Submap
<1> QED  BY <1>5, <1>6

LEMMA AliveDoes ==
  ASSUME CachesType, NEW p \in Participants, ApplyAlive(p)
  PROVE  /\ CachesType' /\ UNCHANGED <<life, live, departed, recent, roles>>
         /\ Keys(gone') = Keys(gone) \ {p}
         /\ p \in Keys(cached') /\ Keys(cached') \subseteq Keys(cached) \cup {p}
         /\ RoomForAll => Keys(cached') = Keys(cached) \cup {p}
<1>1. /\ gone' = Pop(gone, p) /\ cached' = Put(cached, p, p, MaxCached)
      /\ UNCHANGED <<life, live, departed, recent, roles>>
  BY DEF ApplyAlive
<1>2. /\ gone \in MapOf(Participants, Nat) /\ IsMap(gone) /\ Len(gone) <= MaxGone
      /\ Len(gone) \in Nat
      /\ cached \in MapOf(Participants, Participants) /\ IsMap(cached)
  BY MapLen DEF CachesType
<1>3. /\ gone' \in MapOf(Participants, Nat) /\ IsMap(gone') /\ Keys(gone') = Keys(gone) \ {p}
      /\ Len(gone') = (IF p \in Keys(gone) THEN Len(gone) - 1 ELSE Len(gone))
  BY <1>1, <1>2, PopValues
<1>4. /\ cached' \in MapOf(Participants, Participants) /\ IsMap(cached')
      /\ Len(cached') <= MaxCached
      /\ p \in Keys(cached') /\ Keys(cached') \subseteq Keys(cached) \cup {p}
  BY <1>1, <1>2, Capacities, PutValues
<1>5. Len(gone') <= MaxGone  BY <1>2, <1>3, Capacities
<1>6. RoomForAll => Keys(cached') = Keys(cached) \cup {p}
  BY <1>1, <1>2, Capacities, RoomToPut DEF RoomForAll
<1> QED  BY <1>1, <1>3, <1>4, <1>5, <1>6 DEF CachesType

(* Nobody the buffer knew is forgotten when there is room for all.         *)
LEMMA RoomToSee ==
  ASSUME NEW l, LifeType(l), NEW p \in Participants, RoomForAll
  PROVE  IsKnown(l, p) \/ Len(l.participants) < MaxParticipants
<1> DEFINE m == l.participants
<1>1. m \in MapOf(Participants, Status) /\ IsMap(m) /\ Len(m) \in Nat /\ MaxParticipants \in Nat
  BY LifeFields
<1>2. Keys(m) \subseteq Participants /\ Cardinality(Participants) \in Nat
  BY <1>1, MapValues, EntityAssumption, FS_CardinalityType
<1> HIDE DEF m
<1>3. p \notin Keys(m) => Len(m) < Cardinality(Participants)
  BY <1>1, <1>2, EntityAssumption, MapLacks
<1> QED  BY <1>1, <1>2, <1>3 DEF RoomForAll, IsKnown, m

LEMMA SeenDoes ==
  ASSUME CachesType, NEW p \in Participants, NEW t \in Nat, NEW u \in Nat, ApplySeen(p, t, u)
  PROVE  /\ CachesType' /\ UNCHANGED <<cached, live, departed, recent, roles, gone>>
         /\ ActiveIn(p)'
         /\ \A q : q # p /\ IsKnown(life', q) =>
              IsKnown(life, q) /\ StatusOf(life', q) = StatusOf(life, q)
         /\ RoomForAll => \A q : IsKnown(life, q) => IsKnown(life', q)
         /\ \A q : Losses(life', q) <= Losses(life, q)
<1>1. /\ life' = RecordSeen(life, p, u, t)
      /\ UNCHANGED <<cached, live, departed, recent, roles, gone>>
  BY DEF ApplySeen
<1>2. LifeType(life)  BY DEF CachesType
<1>3. /\ LifeType(life')
      /\ IsKnown(life', p) /\ StatusOf(life', p) = "active"
      /\ \A q : q # p /\ IsKnown(life', q) =>
           IsKnown(life, q) /\ StatusOf(life', q) = StatusOf(life, q)
      /\ IsKnown(life, p) \/ Len(life.participants) < MaxParticipants =>
           \A q : IsKnown(life, q) => IsKnown(life', q)
      /\ \A q : Losses(life', q) <= Losses(life, q)
  BY <1>1, <1>2, SeenLife
<1>4. CachesType'  BY <1>1, <1>3 DEF CachesType
<1> QED  BY <1>1, <1>2, <1>3, <1>4, RoomToSee DEF ActiveIn

(* A loss recorded for p, who is known or becomes so on the way.           *)
Loses(p) ==
  /\ IsKnown(life', p) /\ StatusOf(life', p) = "left"
  /\ Keys(cached') = Keys(cached) \ {p}
  /\ \A q : q # p /\ IsKnown(life', q) =>
       IsKnown(life, q) /\ StatusOf(life', q) = StatusOf(life, q)
  /\ RoomForAll => \A q : IsKnown(life, q) => IsKnown(life', q)
  /\ \A q : Losses(life', q) <= Losses(life, q) + (IF q = p THEN 1 ELSE 0)
  /\ UNCHANGED <<live, departed, recent, roles, gone>>

LEMMA UncachedType ==
  ASSUME CachesType, NEW p, cached' = Pop(cached, p), LifeType(life'),
         UNCHANGED <<live, departed, recent, roles, gone>>
  PROVE  CachesType' /\ Keys(cached') = Keys(cached) \ {p}
<1>1. /\ cached \in MapOf(Participants, Participants) /\ IsMap(cached)
      /\ Len(cached) \in Nat /\ Len(cached) <= MaxCached
  BY MapLen DEF CachesType
<1>2. /\ cached' \in MapOf(Participants, Participants) /\ IsMap(cached')
      /\ Len(cached') = (IF p \in Keys(cached) THEN Len(cached) - 1 ELSE Len(cached))
      /\ Keys(cached') = Keys(cached) \ {p}
  BY <1>1, PopValues
<1>3. Len(cached') <= MaxCached  BY <1>1, <1>2, Capacities
<1> QED  BY <1>2, <1>3 DEF CachesType

LEMMA BornGoneDoes ==
  ASSUME CachesType, NEW p, IsKnown(life, p), NEW u \in Nat, ApplyBornGone(p, u)
  PROVE  CachesType' /\ Loses(p)
<1>1. /\ cached' = Pop(cached, p) /\ life' = RecordLost(life, p, u, None)
      /\ UNCHANGED <<live, departed, recent, roles, gone>>
  BY DEF ApplyBornGone
<1>2. LifeType(life) /\ None \in Nat  BY DEF CachesType, None
<1>3. /\ LifeType(life') /\ StatusOf(life', p) = "left"
      /\ \A q : IsKnown(life', q) <=> IsKnown(life, q)
      /\ \A q : q # p => StatusOf(life', q) = StatusOf(life, q) \/ ~IsKnown(life', q)
      /\ \A q : Losses(life', q) <= Losses(life, q) + (IF q = p THEN 1 ELSE 0)
  BY <1>1, <1>2, LostLife
<1>4. CachesType' /\ Keys(cached') = Keys(cached) \ {p}  BY <1>1, <1>3, UncachedType
<1> QED  BY <1>1, <1>3, <1>4 DEF Loses

LEMMA GoneDoes ==
  ASSUME CachesType, NEW p \in Participants, NEW t \in Nat, NEW u \in Nat, ApplyGone(p, t, u)
  PROVE  CachesType' /\ Loses(p)
<1> DEFINE known == IF IsKnown(life, p) THEN life ELSE RecordSeen(life, p, u, None)
<1>1. /\ cached' = Pop(cached, p) /\ life' = RecordLost(known, p, u, t)
      /\ UNCHANGED <<live, departed, recent, roles, gone>>
  BY DEF ApplyGone
<1>2. LifeType(life) /\ None \in Nat  BY DEF CachesType, None
<1>3. /\ LifeType(known) /\ IsKnown(known, p)
      /\ \A q : q # p /\ IsKnown(known, q) =>
           IsKnown(life, q) /\ StatusOf(known, q) = StatusOf(life, q)
      /\ RoomForAll => \A q : IsKnown(life, q) => IsKnown(known, q)
      /\ \A q : Losses(known, q) <= Losses(life, q)
  <2>1. CASE IsKnown(life, p)
    <3>1. known = life  BY <2>1
    <3>2. \A q : Losses(life, q) \in Nat  BY <1>2, LifeFields
    <3> HIDE DEF known
    <3> QED  BY <1>2, <2>1, <3>1, <3>2
  <2>2. CASE ~IsKnown(life, p)
    <3>1. known = RecordSeen(life, p, u, None)  BY <2>2
    <3> HIDE DEF known
    <3>2. RoomForAll => Len(life.participants) < MaxParticipants  BY <1>2, <2>2, RoomToSee
    <3> QED  BY <1>2, <3>1, <3>2, SeenLife
  <2> QED  BY <2>1, <2>2
<1> HIDE DEF known
<1>4. /\ LifeType(life') /\ StatusOf(life', p) = "left"
      /\ \A q : IsKnown(life', q) <=> IsKnown(known, q)
      /\ \A q : q # p => StatusOf(life', q) = StatusOf(known, q) \/ ~IsKnown(life', q)
      /\ \A q : Losses(life', q) <= Losses(known, q) + (IF q = p THEN 1 ELSE 0)
  BY <1>1, <1>3, LostLife
<1>5. CachesType' /\ Keys(cached') = Keys(cached) \ {p}  BY <1>1, <1>4, UncachedType
<1>6. \A q : Losses(life', q) <= Losses(life, q) + (IF q = p THEN 1 ELSE 0)
  <2>1. \A q : Losses(life', q) \in Nat /\ Losses(known, q) \in Nat /\ Losses(life, q) \in Nat
    BY <1>2, <1>3, <1>4, LifeFields
  <2> QED  BY <1>3, <1>4, <2>1
<1> QED  BY <1>1, <1>3, <1>4, <1>5, <1>6 DEF Loses

-----------------------------------------------------------------------------
(* What the thread has in hand.                                            *)
LEMMA ReadByReaders ==
  /\ ReadBy(1) = Participants
  /\ \A k \in 1..3 : ReadBy(k) \subseteq Entities /\ (k # 1 => ReadBy(k) \subseteq Endpoints)
<1>1. \A k \in 1..3 : k = 1 \/ k = 2 \/ k = 3  OBVIOUS
<1>2. /\ ReadBy(1) = Participants
      /\ ReadBy(2) = {e \in Endpoints : RoleOf[e] = "writer"}
      /\ ReadBy(3) = {e \in Endpoints : RoleOf[e] = "reader"}
  BY DEF ReadBy
<1> QED  BY <1>1, <1>2 DEF Entities

LEMMA InHand ==
  ASSUME ThreadType, Control
  PROVE  /\ stage # "next" => /\ cur \in SampleOf(1) /\ cur.id \in Participants
                              /\ cur.at \in 0..MaxTime /\ cur.at \in Nat
                              /\ cur.kind \in Kinds /\ pc = "apply"
         /\ stage = "next" => cur.id \notin Participants /\ cur.kind \notin Kinds
<1>1. NoSample.id = "none" /\ NoSample.kind = "none"  BY DEF NoSample
<1>2. \A s \in SampleOf(1) : s.id \in Participants /\ s.at \in 0..MaxTime /\ s.kind \in Kinds
  BY ReadByReaders DEF SampleOf
<1>3. MaxTime \in Nat  BY RunAssumption
<1> QED  BY <1>1, <1>2, <1>3, EntityAssumption DEF ThreadType, Control, Kinds, Dead

(* What a take brings: the samples of the entities taken, each once.       *)
News(o) == [i \in DOMAIN o |-> Sample(o[i])]

LEMMA NewsOf ==
  ASSUME BusType, NEW k \in 1..3, NEW S \in SUBSET Unread(k), NEW o \in Orders(S)
  PROVE  /\ News(o) \in Seq(SampleOf(k))
         /\ DOMAIN o = 1..Len(News(o))
         /\ \A i \in 1..Len(News(o)) :
              /\ o[i] \in S /\ o[i] \in Entities
              /\ News(o)[i] = Sample(o[i])
              /\ News(o)[i].id = o[i] /\ News(o)[i].kind = pending[o[i]]
              /\ k = 1 => o[i] \in Participants /\ News(o)[i].at = stamp[o[i]]
         /\ \A i, j \in 1..Len(News(o)) : News(o)[i].id = News(o)[j].id => i = j
<1> DEFINE n == Cardinality(S)
           t == News(o)
<1>1. S \subseteq ReadBy(k) /\ \A x \in S : x \in Entities /\ pending[x] \in Kinds
  BY ReadByReaders DEF Unread, BusType
<1>2. n \in Nat
  <2>1. IsFiniteSet(Entities)  BY EntityAssumption, FS_Union DEF Entities
  <2> QED  BY <1>1, <2>1, FS_Subset, FS_CardinalityType
<1>3. o \in [1..n -> S] /\ \A i, j \in 1..n : o[i] = o[j] => i = j
  BY DEF Orders
<1>4. \A x \in S : Sample(x) \in SampleOf(k)
  <2> SUFFICES ASSUME NEW x \in S PROVE Sample(x) \in SampleOf(k)  OBVIOUS
  <2>1. x \in ReadBy(k) /\ pending[x] \in Kinds  BY <1>1
  <2>2. (IF x \in Participants THEN stamp[x] ELSE None) \in 0..MaxTime
    BY RunAssumption DEF BusType, None
  <2> QED  BY <2>1, <2>2 DEF Sample, SampleOf
<1> HIDE DEF n
<1>5. DOMAIN t = 1..n /\ \A i \in 1..n : t[i] = Sample(o[i]) /\ o[i] \in S  BY <1>3 DEF News
<1>6. \A x : /\ Sample(x).id = x /\ Sample(x).kind = pending[x]
             /\ x \in Participants => Sample(x).at = stamp[x]
  BY DEF Sample
<1>7. t \in Seq(SampleOf(k)) /\ Len(t) = n
  <2> DEFINE T == SampleOf(k)
  <2>1. t = [i \in 1..n |-> t[i]] /\ \A i \in 1..n : t[i] \in T
    <3>1. t = [i \in DOMAIN t |-> t[i]]  BY DEF News
    <3> QED  BY <1>4, <1>5, <3>1
  <2>2. t \in [1..n -> T]
    <3> HIDE DEF t, T
    <3> QED  BY <2>1
  <2> HIDE DEF t, T
  <2>3. t \in Seq(T)  BY <1>2, <2>2, SeqDef
  <2>4. Len(t) \in Nat /\ DOMAIN t = 1..Len(t) /\ DOMAIN t = 1..n
    BY <2>2, <2>3, LenProperties
  <2>5. 1..Len(t) = 1..n  BY <2>4
  <2>6. Cardinality(1..Len(t)) = Len(t) /\ Cardinality(1..n) = n  BY <1>2, <2>4, UpTo
  <2>7. Len(t) = n  BY <2>5, <2>6
  <2> QED  BY <2>3, <2>7 DEF T
<1> HIDE DEF t
<1>8. k = 1 => \A x \in S : x \in Participants  BY <1>1, ReadByReaders
<1> QED  BY <1>1, <1>3, <1>5, <1>6, <1>7, <1>8 DEF t

LEMMA FilledDoes ==
  ASSUME BusType, ThreadType, NEW k \in 1..3, NEW S \in SUBSET Unread(k), NEW o \in Orders(S)
  PROVE  /\ DOMAIN Filled(k, o) = 1..3
         /\ \A j \in 1..3 : Filled(k, o)[j] \in Seq(SampleOf(j))
         /\ Filled(k, o)[k] = sinks[k] \o News(o)
         /\ \A j \in 1..3 \ {k} : Filled(k, o)[j] = sinks[j]
<1>1. Filled(k, o) = [sinks EXCEPT ![k] = sinks[k] \o News(o)]  BY DEF Filled, News
<1>2. DOMAIN sinks = 1..3 /\ \A j \in 1..3 : sinks[j] \in Seq(SampleOf(j))  BY DEF ThreadType
<1>3. News(o) \in Seq(SampleOf(k))  BY NewsOf
<1>4. sinks[k] \o News(o) \in Seq(SampleOf(k))
  <2> DEFINE T == SampleOf(k)
  <2>1. sinks[k] \in Seq(T) /\ News(o) \in Seq(T)  BY <1>2, <1>3
  <2> HIDE DEF T
  <2> QED  BY <2>1, ConcatProperties DEF T
<1>5. DOMAIN Filled(k, o) = 1..3  BY <1>1, <1>2
<1>6. Filled(k, o)[k] = sinks[k] \o News(o)  BY <1>1, <1>2
<1>7. \A j \in 1..3 \ {k} : Filled(k, o)[j] = sinks[j]  BY <1>1, <1>2
<1> QED  BY <1>2, <1>4, <1>5, <1>6, <1>7

(* The sample applied next is an earliest one and the first of those.      *)
LEMMA EarliestOf ==
  ASSUME NEW q \in Seq(SampleOf(1)), q # <<>>
  PROVE  /\ Earliest(q) \in 1..Len(q)
         /\ \A j \in 1..Len(q) :
              q[Earliest(q)].at < q[j].at \/ (q[Earliest(q)].at = q[j].at /\ Earliest(q) <= j)
<1> DEFINE T == SampleOf(1)
           Ats == {q[i].at : i \in 1..Len(q)}
<1>1. Len(q) \in Nat /\ Len(q) >= 1 /\ \A i \in 1..Len(q) : q[i] \in T
  <2>1. q \in Seq(T)  OBVIOUS
  <2> HIDE DEF T
  <2> QED  BY <2>1
<1>2. \A i \in 1..Len(q) : q[i].at \in Nat  BY <1>1, RunAssumption DEF SampleOf
<1>3. Ats \in SUBSET Nat /\ Ats # {}  BY <1>1, <1>2
<1>4. PICK a \in Ats : \A b \in Ats : a <= b
  <2> HIDE DEF Ats
  <2> QED  BY <1>3, LeastElement
<1> DEFINE Is == {i \in 1..Len(q) : q[i].at = a}
<1>5. Is \in SUBSET Nat /\ Is # {}  BY <1>4
<1>6. PICK i \in Is : \A j \in Is : i <= j
  <2> HIDE DEF Is
  <2> QED  BY <1>5, LeastElement
<1>7. \A j \in 1..Len(q) : q[i].at < q[j].at \/ (q[i].at = q[j].at /\ i <= j)
  <2>1. a \in Nat /\ i \in Nat /\ q[i].at = a  BY <1>3, <1>5, <1>6
  <2>2. \A j \in 1..Len(q) : a <= q[j].at  BY <1>4
  <2>3. \A j \in 1..Len(q) : q[j].at = a => i <= j  BY <1>6
  <2> HIDE DEF Ats, Is
  <2> QED  BY <1>2, <2>1, <2>2, <2>3
<1>8. i \in 1..Len(q)  BY <1>6
<1> QED  BY <1>7, <1>8 DEF Earliest

-----------------------------------------------------------------------------
(* Types are kept: by the bus, by the takes and by each step of a pass.    *)
LEMMA TypesInit ==
  ASSUME Init
  PROVE  Types
<1>1. CachesType
  <2>1. LifeType(life)
    <3>1. life = [participants |-> <<>>, events |-> <<>>]
      BY DEF Init, InitCaches, EmptyBuffer
    <3>2. <<>> \in MapOf(Participants, Status) /\ IsMap(<<>>) /\ Len(<<>>) = 0  BY EmptyMap
    <3>3. <<>> \in Seq(LogEntry) /\ 0 <= MaxParticipants /\ 0 <= MaxEvents
      BY BoundsAssumption
    <3> QED  BY <3>1, <3>2, <3>3 DEF LifeType
  <2>2. \A K, V : <<>> \in MapOf(K, V) /\ IsMap(<<>>) /\ Len(<<>>) = 0  BY EmptyMap
  <2>3. /\ cached = <<>> /\ live = [r \in Roles |-> <<>>] /\ departed = <<>> /\ recent = <<>>
        /\ roles = <<>> /\ gone = <<>>
    BY DEF Init, InitCaches
  <2> QED  BY <2>1, <2>2, <2>3, Capacities DEF CachesType
<1>2. BusType
  BY RunAssumption DEF Init, BusType, Kinds, None
<1>3. ThreadType
  <2>1. \A k \in 1..3 : EmptySinks[k] \in Seq(SampleOf(k))  BY DEF EmptySinks
  <2>2. DOMAIN EmptySinks = 1..3  BY DEF EmptySinks
  <2>3. Readers[1] = "participants" /\ <<>> \in Seq(Move)  BY DEF Readers
  <2> QED  BY <2>1, <2>2, <2>3, RunAssumption DEF Init, ThreadType
<1>4. Control  BY DEF Init, Control, EmptySinks, Readers
<1> QED  BY <1>1, <1>2, <1>3, <1>4 DEF Types

LEMMA SameCaches == ASSUME CachesType, UNCHANGED caches PROVE CachesType'
BY DEF CachesType, caches

LEMMA SameThread ==
  ASSUME ThreadType, Control, UNCHANGED thread
  PROVE  ThreadType' /\ Control'
BY DEF ThreadType, Control, thread

LEMMA SameBus ==
  ASSUME BusType, UNCHANGED <<bus, lastTaken>>
  PROVE  BusType'
BY DEF BusType, bus

LEMMA TypesAppears ==
  ASSUME Types, NEW x \in Entities, Appears(x)
  PROVE  Types'
<1>1. CachesType' /\ ThreadType' /\ Control'
  BY SameCaches, SameThread DEF Types, Appears
<1>2. BusType'
  <2>1. now \in 0..MaxTime /\ MaxTime \in Nat  BY RunAssumption DEF Types, BusType
  <2>2. stamp' \in [Participants -> 0..MaxTime]  BY <2>1 DEF Types, BusType, Appears
  <2>3. pending' \in [Entities -> Kinds \cup {"none"}]  BY DEF Types, BusType, Appears, Kinds
  <2> QED  BY <2>2, <2>3 DEF Types, BusType, Appears, history
<1> QED  BY <1>1, <1>2 DEF Types

LEMMA TypesLeaves ==
  ASSUME Types, NEW x \in Entities, Leaves(x)
  PROVE  Types'
<1>1. CachesType' /\ ThreadType' /\ Control'
  BY SameCaches, SameThread DEF Types, Leaves
<1>2. BusType'
  <2>1. now \in 0..MaxTime /\ MaxTime \in Nat  BY RunAssumption DEF Types, BusType
  <2>2. stamp' \in [Participants -> 0..MaxTime]  BY <2>1 DEF Types, BusType, Leaves
  <2>3. pending' \in [Entities -> Kinds \cup {"none"}]
    BY DEF Types, BusType, Leaves, Kinds, Dead
  <2>4. departures' \in [Participants -> Nat]  BY DEF Types, BusType, Leaves
  <2> QED  BY <2>2, <2>3, <2>4 DEF Types, BusType, Leaves, history
<1> QED  BY <1>1, <1>2 DEF Types

LEMMA TypesTick ==
  ASSUME Types, Tick
  PROVE  Types'
<1>1. CachesType' /\ ThreadType' /\ Control'
  BY SameCaches, SameThread DEF Types, Tick
<1>2. now' \in 1..MaxTime  BY RunAssumption DEF Types, BusType, Tick
<1> QED  BY <1>1, <1>2 DEF Types, BusType, Tick, history

Turn(k) == pc = CASE k = 1 -> "participants" [] k = 2 -> "publications" [] k = 3 -> "subscriptions"

LEMMA TurnOf ==
  ASSUME NEW k \in 1..3, pc = Readers[k]
  PROVE  pc # "apply" /\ Turn(k)
<1>1. k = 1 \/ k = 2 \/ k = 3  OBVIOUS
<1> QED  BY <1>1 DEF Readers, Turn

LEMMA TakingType ==
  ASSUME BusType, NEW k \in 1..3, NEW o, Taking(k, o)
  PROVE  BusType'
<1> DEFINE taken == {o[i] : i \in DOMAIN o}
<1>1. /\ pending' = [x \in Entities |-> IF x \in taken THEN "none" ELSE pending[x]]
      /\ lastTaken' = [p \in Participants |-> IF p \in taken THEN pending[p] ELSE lastTaken[p]]
      /\ UNCHANGED <<alive, stamp, now, departures>>
  BY DEF Taking
<1> HIDE DEF taken
<1>2. \A p \in Participants : pending[p] \in Kinds \cup {"none"}  BY DEF BusType, Entities
<1>3. pending' \in [Entities -> Kinds \cup {"none"}]  BY <1>1 DEF BusType
<1>4. lastTaken' \in [Participants -> Kinds \cup {"none"}]  BY <1>1, <1>2 DEF BusType
<1> QED  BY <1>1, <1>3, <1>4 DEF BusType

LEMMA NoneHeld ==
  /\ DOMAIN EmptySinks = 1..3
  /\ \A k \in 1..3 : EmptySinks[k] = <<>> /\ EmptySinks[k] \in Seq(SampleOf(k))
BY DEF EmptySinks

LEMMA TypesTake ==
  ASSUME Types, NEW k \in 1..3, Take(k)
  PROVE  Types'
<1>1. PICK o \in Orders(Unread(k)) :
        /\ Taking(k, o)
        /\ IF k < 3
           THEN pc' = Readers[k + 1] /\ sinks' = Filled(k, o) /\ UNCHANGED <<batch, passNow>>
           ELSE /\ pc' = "apply" /\ batch' = Filled(k, o) /\ sinks' = EmptySinks
                /\ passNow' = now
  BY DEF Take
<1>2. UNCHANGED <<caches, cur, stage, moving>> /\ pc # "apply"  BY TurnOf DEF Take
<1>3. CachesType' /\ BusType'  BY <1>1, <1>2, SameCaches, TakingType DEF Types
<1>4. DOMAIN Filled(k, o) = 1..3 /\ \A j \in 1..3 : Filled(k, o)[j] \in Seq(SampleOf(j))
  BY <1>1, FilledDoes DEF Types
<1> DEFINE F == Filled(k, o)
<1> HIDE DEF F
<1>5. ThreadType'
  <2>1. CASE k < 3
    <3>1. k + 1 \in 1..3 /\ k + 1 # 1 /\ (k + 1 = 2 \/ k + 1 = 3)  BY <2>1
    <3>2. pc' \in {"publications", "subscriptions"}  BY <1>1, <2>1, <3>1 DEF Readers
    <3>3. sinks' = F /\ UNCHANGED <<batch, passNow>>  BY <1>1, <2>1 DEF F
    <3> QED  BY <1>2, <1>4, <3>2, <3>3 DEF Types, ThreadType, F
  <2>2. CASE ~(k < 3)
    <3>1. pc' = "apply" /\ batch' = F /\ sinks' = EmptySinks /\ passNow' = now
      BY <1>1, <2>2 DEF F
    <3>2. now \in 1..MaxTime  BY DEF Types, BusType
    <3> QED  BY <1>2, <1>4, <3>1, <3>2, NoneHeld DEF Types, ThreadType, F
  <2> QED  BY <2>1, <2>2
<1>6. Control'
  <2>1. stage = "next" /\ cur = NoSample /\ batch[1] = <<>>  BY <1>2 DEF Types, Control
  <2>2. CASE k < 3
    <3>1. pc' # "apply" /\ UNCHANGED batch
      <4>1. k + 1 = 2 \/ k + 1 = 3  BY <2>2
      <4> QED  BY <1>1, <2>2, <4>1 DEF Readers
    <3> QED  BY <1>2, <2>1, <3>1 DEF Control
  <2>3. CASE ~(k < 3)
    <3>1. pc' = "apply" /\ sinks' = EmptySinks  BY <1>1, <2>3
    <3>2. EmptySinks[1] = <<>>  BY NoneHeld
    <3> QED  BY <1>2, <2>1, <3>1, <3>2 DEF Control
  <2> QED  BY <2>2, <2>3
<1> QED  BY <1>3, <1>5, <1>6 DEF Types

LEMMA TypesTakeRaises ==
  ASSUME Types, NEW k \in 1..3, TakeRaises(k)
  PROVE  Types'
<1>1. PICK S \in SUBSET Unread(k) : \E o \in Orders(S) : Taking(k, o) /\ sinks' = Filled(k, o)
  BY DEF TakeRaises
<1>2. PICK o \in Orders(S) : Taking(k, o) /\ sinks' = Filled(k, o)  BY <1>1
<1>3. /\ UNCHANGED <<caches, batch, cur, stage, moving, passNow>>
      /\ pc # "apply" /\ pc' = "participants"
  BY TurnOf DEF TakeRaises, Readers
<1>4. CachesType' /\ BusType'  BY <1>2, <1>3, SameCaches, TakingType DEF Types
<1>5. DOMAIN sinks' = 1..3 /\ \A j \in 1..3 : sinks'[j] \in Seq(SampleOf(j))
  BY <1>2, FilledDoes DEF Types
<1>6. ThreadType'  BY <1>3, <1>5 DEF Types, ThreadType
<1>7. Control'  BY <1>3 DEF Types, Control
<1> QED  BY <1>4, <1>6, <1>7 DEF Types

-----------------------------------------------------------------------------
(* The steps of a pass, with what they do to caches and lifecycle.         *)

(* Nobody but p changes status or comes into being.                        *)
OthersKeep(p) ==
  /\ \A q : q # p /\ IsKnown(life', q) =>
       IsKnown(life, q) /\ StatusOf(life', q) = StatusOf(life, q)
  /\ RoomForAll => \A q : IsKnown(life, q) => IsKnown(life', q)

LEMMA PickDoes ==
  ASSUME Types, PickParticipant,
         NEW i, i = Earliest(batch[1]), NEW s, s = batch[1][i]
  PROVE  /\ batch[1] \in Seq(SampleOf(1)) /\ batch[1] # <<>> /\ i \in 1..Len(batch[1])
         /\ s \in SampleOf(1) /\ s.id \in Participants /\ s.kind \in Kinds
         /\ pc = "apply" /\ stage = "next"
         /\ batch'[1] = Without(batch[1], i)
         /\ cur' = s /\ stage' = IF s.kind = "alive" THEN "put" ELSE "mark"
         /\ UNCHANGED <<cached, live, departed, recent, roles, gone>>
         /\ UNCHANGED <<bus, pc, sinks, moving, passNow, lastTaken>>
         /\ s.kind # "gone" => ActiveIn(s.id)'
         /\ s.kind = "gone" => life' = life
         /\ OthersKeep(s.id)
         /\ \A q : Losses(life', q) <= Losses(life, q)
         /\ Types'
<1>1. /\ pc = "apply" /\ stage = "next" /\ batch[1] # <<>>
      /\ batch' = [batch EXCEPT ![1] = Without(batch[1], i)]
      /\ cur' = s /\ stage' = IF s.kind = "alive" THEN "put" ELSE "mark"
      /\ IF s.kind = "gone" THEN UNCHANGED caches ELSE ApplySeen(s.id, s.at, passNow)
      /\ UNCHANGED <<bus, pc, sinks, moving, passNow, lastTaken>>
  BY DEF PickParticipant, history
<1>2. /\ DOMAIN batch = 1..3 /\ \A k \in 1..3 : batch[k] \in Seq(SampleOf(k))
      /\ batch[1] \in Seq(SampleOf(1))
  BY DEF Types, ThreadType
<1>3. i \in 1..Len(batch[1])  BY <1>1, <1>2, EarliestOf
<1>4. s \in SampleOf(1)  BY <1>2, <1>3, ElementOfSeq
<1>5. s.id \in Participants /\ s.kind \in Kinds /\ s.at \in Nat
  <2>1. s.id \in ReadBy(1) /\ s.kind \in Kinds /\ s.at \in 0..MaxTime  BY <1>4 DEF SampleOf
  <2> QED  BY <2>1, ReadByReaders, RunAssumption
<1>6. batch'[1] = Without(batch[1], i) /\ \A k \in 1..3 \ {1} : batch'[k] = batch[k]
  BY <1>1, <1>2
<1>7. DOMAIN batch' = 1..3 /\ \A k \in 1..3 : batch'[k] \in Seq(SampleOf(k))
  <2>1. Without(batch[1], i) \in Seq(SampleOf(1))  BY <1>2, <1>3, WithoutElements
  <2> QED  BY <1>1, <1>2, <1>6, <2>1
<1>8. BusType' /\ ThreadType'
  <2>1. BusType'  BY <1>1, SameBus DEF Types
  <2>2. stage' \in {"put", "mark"}  BY <1>1
  <2>3. ThreadType'  BY <1>1, <1>4, <1>7, <2>2 DEF Types, ThreadType
  <2> QED  BY <2>1, <2>3
<1>9. Control'
  <2>1. s # NoSample  BY <1>5 DEF NoSample, Kinds, Dead
  <2>2. stage' = "put" => s.kind = "alive"  BY <1>1
  <2>3. stage' \in {"mark", "depart"} => s.kind \in Dead  BY <1>1, <1>5 DEF Kinds
  <2>4. stage' # "next"  BY <1>1
  <2> QED  BY <1>1, <2>1, <2>2, <2>3, <2>4 DEF Types, Control
<1>10. CASE s.kind = "gone"
  <2>1. UNCHANGED caches  BY <1>1, <1>10
  <2>2. CachesType'  BY <2>1, SameCaches DEF Types
  <2>3. life' = life /\ \A q : Losses(life, q) \in Nat
    BY <2>1, LifeFields DEF caches, Types, CachesType
  <2> QED  BY <1>1, <1>2, <1>3, <1>4, <1>5, <1>6, <1>8, <1>9, <1>10, <2>1, <2>2, <2>3
           DEF Types, caches, OthersKeep
<1>11. CASE s.kind # "gone"
  <2>1. ApplySeen(s.id, s.at, passNow)  BY <1>1, <1>11
  <2>2. passNow \in Nat  BY RunAssumption DEF Types, ThreadType
  <2>3. /\ CachesType' /\ UNCHANGED <<cached, live, departed, recent, roles, gone>>
        /\ ActiveIn(s.id)' /\ OthersKeep(s.id)
        /\ \A q : Losses(life', q) <= Losses(life, q)
    BY <1>5, <2>1, <2>2, SeenDoes DEF Types, OthersKeep
  <2> QED  BY <1>1, <1>2, <1>3, <1>4, <1>5, <1>6, <1>8, <1>9, <1>11, <2>3 DEF Types
<1> QED  BY <1>10, <1>11

(* Nothing of the bus, the takes and what they brought.                    *)
Still == UNCHANGED <<bus, pc, sinks, batch, passNow, lastTaken>>

LEMMA StillTypes ==
  ASSUME Types, Still, CachesType',
         \/ stage' = "next" /\ cur' = NoSample /\ pc = "apply"
         \/ stage' = "depart" /\ cur' = cur /\ stage \in {"mark", "depart"},
         moving' \in Seq(Move)
  PROVE  Types'
<1>1. BusType'  BY SameBus DEF Types, Still
<1>2. stage' \in {"next", "depart"} /\ cur' \in SampleOf(1) \cup {NoSample}
  BY DEF Types, ThreadType
<1>3. ThreadType'  BY <1>2 DEF Types, ThreadType, Still
<1>4. Control'  BY DEF Types, Control, Still
<1> QED  BY <1>1, <1>3, <1>4 DEF Types

LEMMA PutDoes ==
  ASSUME Types, PutAlive
  PROVE  /\ cur.id \in Participants /\ stage = "put" /\ stage' = "next" /\ cur' = NoSample
         /\ Still /\ UNCHANGED <<life, live, departed, recent, roles>>
         /\ Keys(gone') = Keys(gone) \ {cur.id}
         /\ cur.id \in Keys(cached') /\ Keys(cached') \subseteq Keys(cached) \cup {cur.id}
         /\ RoomForAll => Keys(cached') = Keys(cached) \cup {cur.id}
         /\ Types'
<1>1. /\ stage = "put" /\ ApplyAlive(cur.id) /\ stage' = "next" /\ cur' = NoSample
      /\ Still /\ moving' = moving
  BY DEF PutAlive, Still, history
<1>2. cur.id \in Participants /\ pc = "apply"  BY <1>1, InHand DEF Types
<1>3. /\ CachesType' /\ UNCHANGED <<life, live, departed, recent, roles>>
      /\ Keys(gone') = Keys(gone) \ {cur.id}
      /\ cur.id \in Keys(cached') /\ Keys(cached') \subseteq Keys(cached) \cup {cur.id}
      /\ RoomForAll => Keys(cached') = Keys(cached) \cup {cur.id}
  BY <1>1, <1>2, AliveDoes DEF Types
<1>4. moving' \in Seq(Move)  BY <1>1 DEF Types, ThreadType
<1>5. Types'  BY <1>1, <1>2, <1>3, <1>4, StillTypes
<1> QED  BY <1>1, <1>2, <1>3, <1>5

LEMMA ListedMoves ==
  ASSUME NEW V, NEW m \in MapOf(Endpoints, V), NEW from \in {"live", "recent"}
  PROVE  /\ Listed(m, from) \in Seq(Move)
         /\ Len(Listed(m, from)) = Len(m)
         /\ \A i \in 1..Len(m) : Listed(m, from)[i] = [from |-> from, id |-> m[i].key]
<1> DEFINE l == Listed(m, from)
<1>1. Len(m) \in Nat  BY MapLen
<1>2. l = [i \in 1..Len(m) |-> [from |-> from, id |-> m[i].key]]  BY DEF Listed
<1>3. \A i \in 1..Len(m) : [from |-> from, id |-> m[i].key] \in Move  BY EntryFields DEF Move
<1>4. l \in [1..Len(m) -> Move] /\ \A i \in 1..Len(m) : l[i] = [from |-> from, id |-> m[i].key]
  BY <1>2, <1>3
<1> HIDE DEF l
<1>5. l \in Seq(Move)  BY <1>1, <1>4, SeqDef
<1>6. Len(l) \in Nat /\ 1..Len(l) = 1..Len(m)  BY <1>4, <1>5, LenProperties
<1>7. Cardinality(1..Len(l)) = Len(l) /\ Cardinality(1..Len(m)) = Len(m)  BY <1>1, <1>6, UpTo
<1> QED  BY <1>4, <1>5, <1>6, <1>7 DEF l

LEMMA MarkStepDoes ==
  ASSUME Types, Mark
  PROVE  /\ cur.id \in Participants /\ stage = "mark" /\ stage' = "depart" /\ cur' = cur
         /\ Still /\ UNCHANGED <<life, cached, live, departed, recent, roles>>
         /\ cur.id \in Keys(gone') /\ Keys(gone') \subseteq Keys(gone) \cup {cur.id}
         /\ RoomForAll => Keys(gone') = Keys(gone) \cup {cur.id}
         /\ \A e \in LiveKeys : InMoving("live", e)'
         /\ \A e \in Keys(recent) : InMoving("recent", e)'
         /\ Types'
<1> DEFINE w == Listed(live["writer"], "live")
           r == Listed(live["reader"], "live")
           c == Listed(recent, "recent")
<1>1. /\ stage = "mark" /\ MarkGone(cur.id, cur.at) /\ stage' = "depart" /\ cur' = cur
      /\ Still /\ moving' = w \o r \o c
  BY DEF Mark, Still, history
<1>2. cur.id \in Participants /\ cur.at \in Nat /\ pc = "apply"  BY <1>1, InHand DEF Types
<1>3. /\ CachesType' /\ UNCHANGED <<life, cached, live, departed, recent, roles>>
      /\ cur.id \in Keys(gone') /\ Keys(gone') \subseteq Keys(gone) \cup {cur.id}
      /\ RoomForAll => Keys(gone') = Keys(gone) \cup {cur.id}
  BY <1>1, <1>2, MarkDoes DEF Types
<1>4. /\ live["writer"] \in MapOf(Endpoints, Participants)
      /\ live["reader"] \in MapOf(Endpoints, Participants)
      /\ recent \in MapOf(Endpoints, Participants)
  BY DEF Types, CachesType, Roles
<1>5. /\ w \in Seq(Move) /\ Len(w) = Len(live["writer"])
      /\ \A i \in 1..Len(live["writer"]) : w[i] = [from |-> "live", id |-> live["writer"][i].key]
      /\ r \in Seq(Move) /\ Len(r) = Len(live["reader"])
      /\ \A i \in 1..Len(live["reader"]) : r[i] = [from |-> "live", id |-> live["reader"][i].key]
      /\ c \in Seq(Move) /\ Len(c) = Len(recent)
      /\ \A i \in 1..Len(recent) : c[i] = [from |-> "recent", id |-> recent[i].key]
  BY <1>4, ListedMoves
<1> HIDE DEF w, r, c
<1>6. /\ moving' \in Seq(Move) /\ Len(moving') = Len(w) + Len(r) + Len(c)
      /\ \A i \in 1..Len(w) : moving'[i] = w[i]
      /\ \A i \in 1..Len(r) : moving'[Len(w) + i] = r[i]
      /\ \A i \in 1..Len(c) : moving'[Len(w) + Len(r) + i] = c[i]
      /\ Len(w) \in Nat /\ Len(r) \in Nat /\ Len(c) \in Nat
  <2> DEFINE wr == w \o r
  <2>0. w \in Seq(Move) /\ r \in Seq(Move) /\ c \in Seq(Move)  BY <1>5
  <2>1. /\ wr \in Seq(Move) /\ Len(wr) = Len(w) + Len(r) /\ Len(w) \in Nat /\ Len(r) \in Nat
        /\ \A i \in 1..(Len(w) + Len(r)) : wr[i] = IF i <= Len(w) THEN w[i] ELSE r[i - Len(w)]
    BY <2>0, ConcatProperties, LenProperties
  <2> HIDE DEF wr
  <2>2. wr \in Seq(Move) /\ Len(c) \in Nat  BY <2>0, <2>1, LenProperties
  <2>3. /\ wr \o c \in Seq(Move) /\ Len(wr \o c) = Len(wr) + Len(c)
        /\ \A i \in 1..(Len(wr) + Len(c)) :
             (wr \o c)[i] = IF i <= Len(wr) THEN wr[i] ELSE c[i - Len(wr)]
    BY <2>0, <2>2, ConcatProperties
  <2>4. moving' = wr \o c  BY <1>1 DEF wr
  <2>5. moving' \in Seq(Move) /\ Len(moving') = Len(w) + Len(r) + Len(c)
    BY <2>1, <2>2, <2>3, <2>4
  <2>6. ASSUME NEW i \in 1..(Len(w) + Len(r)) PROVE moving'[i] = wr[i]
    <3>1. i \in 1..(Len(wr) + Len(c)) /\ i <= Len(wr)  BY <2>1, <2>2
    <3> QED  BY <2>3, <2>4, <3>1
  <2>7. ASSUME NEW i \in 1..Len(w) PROVE moving'[i] = w[i]
    <3>1. i \in 1..(Len(w) + Len(r)) /\ i <= Len(w)  BY <2>1
    <3> QED  BY <2>1, <2>6, <3>1
  <2>8. ASSUME NEW i \in 1..Len(r) PROVE moving'[Len(w) + i] = r[i]
    <3>1. /\ Len(w) + i \in 1..(Len(w) + Len(r)) /\ ~(Len(w) + i <= Len(w))
          /\ Len(w) + i - Len(w) = i
      BY <2>1
    <3>2. wr[Len(w) + i] = r[i]  BY <2>1, <3>1
    <3> QED  BY <2>6, <3>1, <3>2
  <2>9. ASSUME NEW i \in 1..Len(c) PROVE moving'[Len(w) + Len(r) + i] = c[i]
    <3> DEFINE k == Len(w) + Len(r) + i
    <3>1. k \in 1..(Len(wr) + Len(c)) /\ ~(k <= Len(wr)) /\ k - Len(wr) = i  BY <2>1, <2>2
    <3> HIDE DEF k
    <3>2. moving'[k] = c[i]  BY <2>3, <2>4, <3>1
    <3> QED  BY <3>2 DEF k
  <2> QED  BY <2>1, <2>2, <2>5, <2>7, <2>8, <2>9
<1>7. ASSUME NEW e \in LiveKeys PROVE InMoving("live", e)'
  <2>1. PICK q \in Roles : e \in Keys(live[q])  BY DEF LiveKeys
  <2>2. CASE q = "writer"
    <3>1. PICK i \in 1..Len(live["writer"]) : live["writer"][i].key = e  BY <2>1, <2>2 DEF Keys
    <3>2. i \in 1..Len(w) /\ w[i] = [from |-> "live", id |-> e]  BY <1>5, <3>1
    <3>3. i \in 1..Len(moving') /\ moving'[i] = w[i]  BY <1>6, <3>2
    <3> QED  BY <3>2, <3>3 DEF InMoving
  <2>3. CASE q = "reader"
    <3>1. PICK i \in 1..Len(live["reader"]) : live["reader"][i].key = e  BY <2>1, <2>3 DEF Keys
    <3>2. i \in 1..Len(r) /\ r[i] = [from |-> "live", id |-> e]  BY <1>5, <3>1
    <3>3. Len(w) + i \in 1..Len(moving') /\ moving'[Len(w) + i] = r[i]  BY <1>6, <3>2
    <3> QED  BY <3>2, <3>3 DEF InMoving
  <2> QED  BY <2>2, <2>3 DEF Roles
<1>8. ASSUME NEW e \in Keys(recent) PROVE InMoving("recent", e)'
  <2>1. PICK i \in 1..Len(recent) : recent[i].key = e  BY DEF Keys
  <2>2. i \in 1..Len(c) /\ c[i] = [from |-> "recent", id |-> e]  BY <1>5, <2>1
  <2>3. Len(w) + Len(r) + i \in 1..Len(moving') /\ moving'[Len(w) + Len(r) + i] = c[i]
    BY <1>6, <2>2
  <2> QED  BY <2>2, <2>3 DEF InMoving
<1>9. Types'  BY <1>1, <1>3, <1>6, StillTypes
<1> QED  BY <1>1, <1>2, <1>3, <1>7, <1>8, <1>9

LEMMA DepartDoes ==
  ASSUME Types, Depart
  PROVE  /\ cur.id \in Participants /\ stage = "depart" /\ stage' = "depart" /\ cur' = cur
         /\ Still /\ UNCHANGED <<life, cached, gone>>
         /\ \A r \in Roles : Submap(live'[r], live[r])
         /\ Submap(recent', recent) /\ Submap(roles', roles)
         /\ Keys(recent) \subseteq Keys(roles) => Keys(recent') \subseteq Keys(roles')
         /\ \A e : InMoving("live", e) /\ At(live[RoleOf[e]], e) = cur.id =>
              InMoving("live", e)' \/ e \notin Keys(live'[RoleOf[e]])
         /\ \A e : InMoving("recent", e) /\ At(recent, e) = cur.id =>
              InMoving("recent", e)' \/ e \notin Keys(recent')
         /\ Types'
<1> DEFINE h == Head(moving)
<1>1. /\ stage = "depart" /\ moving # <<>> /\ moving' = Tail(moving)
      /\ stage' = "depart" /\ cur' = cur /\ Still
      /\ h.from = "live" => DepartLive(cur.id, h.id, cur.at)
      /\ h.from # "live" => DepartRecent(cur.id, h.id, cur.at, passNow)
  BY DEF Depart, Still, history
<1>2. cur.id \in Participants /\ cur.at \in Nat /\ passNow \in Nat
  BY <1>1, InHand, RunAssumption DEF Types, ThreadType
<1>3. /\ moving \in Seq(Move) /\ h \in Move /\ moving' \in Seq(Move)
      /\ Len(moving) \in Nat /\ Len(moving') = Len(moving) - 1 /\ h = moving[1]
      /\ \A i \in 1..Len(moving') : moving'[i] = moving[i + 1]
  <2>1. moving \in Seq(Move)  BY DEF Types, ThreadType
  <2>2. h = moving[1]  OBVIOUS
  <2> QED  BY <1>1, <2>1, <2>2, HeadTailProperties, LenProperties
<1>4. h.from \in {"live", "recent"} /\ h.id \in Endpoints
  BY <1>3 DEF Move
<1> HIDE DEF h
<1>5. \A from, e : InMoving(from, e) => InMoving(from, e)' \/ (h.from = from /\ h.id = e)
  <2> SUFFICES ASSUME NEW from, NEW e, InMoving(from, e)
               PROVE  InMoving(from, e)' \/ (h.from = from /\ h.id = e)
    OBVIOUS
  <2>1. PICK i \in 1..Len(moving) : moving[i] = [from |-> from, id |-> e]  BY DEF InMoving
  <2>2. CASE i = 1  BY <1>3, <2>1, <2>2
  <2>3. CASE i # 1
    <3>1. i - 1 \in 1..Len(moving') /\ moving'[i - 1] = moving[i]  BY <1>3, <2>3
    <3> QED  BY <2>1, <3>1 DEF InMoving
  <2> QED  BY <2>2, <2>3
<1>6. CASE h.from = "live"
  <2>1. /\ CachesType' /\ UNCHANGED <<life, cached, recent, roles, gone>>
        /\ \A r \in Roles : Submap(live'[r], live[r])
        /\ At(live[RoleOf[h.id]], h.id) = cur.id => h.id \notin Keys(live'[RoleOf[h.id]])
    BY <1>1, <1>2, <1>4, <1>6, DepartLiveDoes DEF Types
  <2>2. Types'  BY <1>1, <1>3, <2>1, StillTypes
  <2>3. \A e : InMoving("live", e) => InMoving("live", e)' \/ h.id = e  BY <1>5
  <2>4. \A e : InMoving("recent", e) => InMoving("recent", e)'  BY <1>5, <1>6
  <2>5. Submap(recent', recent) /\ Submap(roles', roles)  BY <2>1 DEF Submap
  <2> QED  BY <1>1, <1>2, <2>1, <2>2, <2>3, <2>4, <2>5
<1>7. CASE h.from = "recent"
  <2>1. /\ CachesType' /\ UNCHANGED <<life, cached, live, gone>>
        /\ Submap(recent', recent) /\ Submap(roles', roles)
        /\ Keys(recent) \subseteq Keys(roles) => Keys(recent') \subseteq Keys(roles')
        /\ At(recent, h.id) = cur.id => h.id \notin Keys(recent')
    BY <1>1, <1>2, <1>4, <1>7, DepartRecentDoes DEF Types
  <2>2. Types'  BY <1>1, <1>3, <2>1, StillTypes
  <2> QED  BY <1>1, <1>2, <1>5, <1>7, <2>1, <2>2 DEF Submap
<1> QED  BY <1>4, <1>6, <1>7

LEMMA LossDoes ==
  ASSUME Types, RecordLoss, cur.kind = "bornGone" => IsKnown(life, cur.id)
  PROVE  /\ cur.id \in Participants /\ cur.kind \in Dead /\ stage = "depart" /\ moving = <<>>
         /\ stage' = "next" /\ cur' = NoSample
         /\ Still /\ Loses(cur.id)
         /\ Types'
<1>1. /\ stage = "depart" /\ moving = <<>> /\ stage' = "next" /\ cur' = NoSample
      /\ Still /\ moving' = moving
      /\ cur.kind = "bornGone" => ApplyBornGone(cur.id, passNow)
      /\ cur.kind # "bornGone" => ApplyGone(cur.id, cur.at, passNow)
  BY DEF RecordLoss, Still, history
<1>2. cur.id \in Participants /\ cur.at \in Nat /\ passNow \in Nat /\ pc = "apply"
  BY <1>1, InHand, RunAssumption DEF Types, ThreadType
<1>3. CachesType' /\ Loses(cur.id)
  BY <1>1, <1>2, BornGoneDoes, GoneDoes DEF Types
<1>4. moving' \in Seq(Move) /\ cur.kind \in Dead  BY <1>1 DEF Types, ThreadType, Control
<1>5. Types'  BY <1>1, <1>2, <1>3, <1>4, StillTypes
<1> QED  BY <1>1, <1>2, <1>3, <1>4, <1>5

LEMMA EndpointDoes ==
  ASSUME Types, NEW k \in 2..3, ApplyEndpoint(k)
  PROVE  /\ stage = "next"
         /\ \E e \in Endpoints, t \in Nat : ApplyAnnounced(e) \/ ApplyRemoved(e, t)
         /\ batch'[1] = batch[1]
         /\ UNCHANGED <<bus, pc, sinks, cur, stage, moving, passNow, lastTaken, life, cached, gone>>
         /\ Types'
<1> DEFINE h == Head(batch[k])
<1>1. /\ pc = "apply" /\ stage = "next" /\ batch[k] # <<>>
      /\ ApplyAnnounced(h.id) \/ ApplyRemoved(h.id, passNow)
      /\ batch' = [batch EXCEPT ![k] = Tail(batch[k])]
      /\ UNCHANGED <<bus, pc, sinks, cur, stage, moving, passNow, lastTaken>>
  BY DEF ApplyEndpoint, history
<1>2. k \in 1..3 /\ k # 1 /\ 1 \in 1..3  OBVIOUS
<1>3. DOMAIN batch = 1..3 /\ \A j \in 1..3 : batch[j] \in Seq(SampleOf(j))
  BY DEF Types, ThreadType
<1>4. h \in SampleOf(k) /\ Tail(batch[k]) \in Seq(SampleOf(k))
  BY <1>1, <1>2, <1>3, HeadTailProperties
<1>5. h.id \in Endpoints /\ passNow \in Nat
  BY <1>2, <1>4, ReadByReaders, RunAssumption DEF SampleOf, Types, ThreadType
<1> HIDE DEF h
<1>6. batch'[k] = Tail(batch[k]) /\ \A j \in 1..3 \ {k} : batch'[j] = batch[j]
  BY <1>1, <1>2, <1>3
<1>7. DOMAIN batch' = 1..3 /\ \A j \in 1..3 : batch'[j] \in Seq(SampleOf(j))
  BY <1>1, <1>3, <1>4, <1>6
<1>8. CachesType' /\ UNCHANGED <<life, cached, gone>>
  BY <1>1, <1>5, AnnouncedDoes, RemovedDoes DEF Types
<1>9. BusType'  BY <1>1, SameBus DEF Types
<1>10. ThreadType'  BY <1>1, <1>7 DEF Types, ThreadType
<1>11. Control'  BY <1>1, <1>2, <1>6 DEF Types, Control
<1>12. Types'  BY <1>8, <1>9, <1>10, <1>11 DEF Types
<1> QED  BY <1>1, <1>2, <1>5, <1>6, <1>8, <1>12

LEMMA DoneDoes ==
  ASSUME Types, PassDone
  PROVE  /\ pc = "apply" /\ stage = "next" /\ pc' # "apply" /\ batch[1] = <<>>
         /\ UNCHANGED <<bus, caches, sinks, batch, cur, stage, moving, lastTaken>>
         /\ Types'
<1>1. /\ pc = "apply" /\ stage = "next" /\ pc' = "participants" /\ passNow' = 1
      /\ batch = EmptySinks /\ batch[1] = <<>>
      /\ UNCHANGED <<bus, caches, sinks, batch, cur, stage, moving, lastTaken>>
  BY NoneHeld DEF PassDone, Readers
<1>2. CachesType' /\ BusType'  BY <1>1, SameCaches, SameBus DEF Types
<1>3. ThreadType'  BY <1>1, RunAssumption DEF Types, ThreadType
<1>4. Control'  BY <1>1 DEF Types, Control
<1> QED  BY <1>1, <1>2, <1>3, <1>4 DEF Types

-----------------------------------------------------------------------------
(* The caches and the lifecycle: placed, departing, in agreement.          *)

(* The steps that touch neither, nor the sample in hand.                   *)
Idle == UNCHANGED <<caches, cur, stage, moving>>

LEMMA Steps ==
  ASSUME Types, [Next]_vars
  PROVE  \/ Idle \/ PickParticipant \/ PutAlive \/ Mark \/ Depart \/ RecordLoss
         \/ \E k \in 2..3 : ApplyEndpoint(k)
<1>1. CASE \E x \in Entities : Appears(x) \/ Leaves(x)
  BY <1>1 DEF Appears, Leaves, thread, Idle
<1>2. CASE Tick  BY <1>2 DEF Tick, thread, Idle
<1>3. CASE \E k \in 1..3 : Take(k) \/ TakeRaises(k)
  BY <1>3 DEF Take, TakeRaises, Idle
<1>4. CASE PassDone  BY <1>4 DEF PassDone, Idle
<1>5. CASE UNCHANGED vars  BY <1>5 DEF vars, thread, Idle
<1> QED  BY <1>1, <1>2, <1>3, <1>4, <1>5 DEF Next, Pass, Apply

LEMMA TypesNext ==
  ASSUME IInv, [Next]_vars
  PROVE  Types'
<1>0. Types  BY DEF IInv
<1>1. CASE \E x \in Entities : Appears(x) \/ Leaves(x)
  BY <1>0, <1>1, TypesAppears, TypesLeaves
<1>2. CASE Tick  BY <1>0, <1>2, TypesTick
<1>3. CASE \E k \in 1..3 : Take(k) \/ TakeRaises(k)
  BY <1>0, <1>3, TypesTake, TypesTakeRaises
<1>4. CASE PickParticipant  BY <1>0, <1>4, PickDoes
<1>5. CASE PutAlive  BY <1>0, <1>5, PutDoes
<1>6. CASE Mark  BY <1>0, <1>6, MarkStepDoes
<1>7. CASE Depart  BY <1>0, <1>7, DepartDoes
<1>8. CASE RecordLoss
  <2>1. cur.kind = "bornGone" => IsKnown(life, cur.id)  BY DEF IInv, Agree, ActiveIn
  <2> QED  BY <1>0, <1>8, <2>1, LossDoes
<1>9. CASE \E k \in 2..3 : ApplyEndpoint(k)  BY <1>0, <1>9, EndpointDoes
<1>10. CASE PassDone  BY <1>0, <1>10, DoneDoes
<1>11. CASE UNCHANGED vars
  <2>1. CachesType'  BY <1>0, <1>11, SameCaches DEF Types, vars
  <2>2. BusType'  BY <1>0, <1>11, SameBus DEF Types, vars, history
  <2>3. ThreadType' /\ Control'  BY <1>0, <1>11, SameThread DEF Types, vars
  <2> QED  BY <2>1, <2>2, <2>3 DEF Types
<1> QED
  BY <1>1, <1>2, <1>3, <1>4, <1>5, <1>6, <1>7, <1>8, <1>9, <1>10, <1>11 DEF Next, Pass, Apply

LEMMA LiveKeysOf == \A e : e \in LiveKeys <=> \E r \in Roles : e \in Keys(live[r])
BY DEF LiveKeys

LEMMA PlacedNext ==
  ASSUME IInv, [Next]_vars
  PROVE  Placed'
<1>0. Types /\ Placed  BY DEF IInv
<1>1. CASE UNCHANGED <<live, recent, roles>>  BY <1>0, <1>1 DEF Placed
<1>2. CASE Depart
  <2>1. /\ \A r \in Roles : Submap(live'[r], live[r])
        /\ Submap(recent', recent) /\ Submap(roles', roles)
        /\ Keys(recent) \subseteq Keys(roles) => Keys(recent') \subseteq Keys(roles')
    BY <1>0, <1>2, DepartDoes
  <2> QED  BY <1>0, <2>1 DEF Placed, Submap
<1>3. ASSUME NEW e \in Endpoints, ApplyAnnounced(e)  PROVE Placed'
  <2>1. /\ UNCHANGED <<recent, roles>>
        /\ \A r \in Roles : \A f \in Keys(live'[r]) :
             \/ f \in Keys(live[r]) /\ At(live'[r], f) = At(live[r], f)
             \/ f = e /\ r = RoleOf[e] /\ At(live'[r], f) = OwnerOf[e]
    BY <1>0, <1>3, AnnouncedDoes DEF Types
  <2> QED  BY <1>0, <2>1 DEF Placed
<1>4. ASSUME NEW e \in Endpoints, NEW t \in Nat, ApplyRemoved(e, t)  PROVE Placed'
  <2>1. /\ \A r \in Roles : Submap(live'[r], live[r])
        /\ \A f \in Keys(recent') :
             \/ f \in Keys(recent) /\ At(recent', f) = At(recent, f)
             \/ /\ f = e /\ e \in Keys(live[RoleOf[e]])
                /\ At(recent', f) = At(live[RoleOf[e]], e)
        /\ \A f \in Keys(roles') :
             \/ f \in Keys(roles) /\ At(roles', f) = At(roles, f)
             \/ f = e /\ At(roles', f).role = RoleOf[e]
        /\ Keys(recent) \subseteq Keys(roles) => Keys(recent') \subseteq Keys(roles')
    BY <1>0, <1>4, RemovedDoes DEF Types
  <2>2. RoleOf[e] \in Roles  BY Capacities
  <2> QED  BY <1>0, <2>1, <2>2 DEF Placed, Submap
<1>5. CASE \E k \in 2..3 : ApplyEndpoint(k)
  BY <1>0, <1>3, <1>4, <1>5, EndpointDoes
<1>6. CASE RecordLoss
  <2>1. cur.kind = "bornGone" => IsKnown(life, cur.id)  BY DEF IInv, Agree, ActiveIn
  <2> QED  BY <1>0, <1>1, <1>6, <2>1, LossDoes DEF Loses
<1>7. CASE Idle  BY <1>1, <1>7 DEF Idle, caches
<1> QED
  BY <1>0, <1>1, <1>2, <1>5, <1>6, <1>7, Steps, PickDoes, PutDoes, MarkStepDoes

LEMMA DepartingNext ==
  ASSUME IInv, [Next]_vars, Placed'
  PROVE  Departing'
<1>0. Types /\ Placed /\ Departing  BY DEF IInv
<1>1. CASE Idle
  BY <1>0, <1>1 DEF Idle, Departing, LiveKeys, InMoving, caches
<1>2. CASE PickParticipant
  <2>1. stage = "next" /\ stage' # "depart" /\ UNCHANGED <<live, gone>>  BY <1>0, <1>2, PickDoes
  <2> QED  BY <1>0, <2>1 DEF Departing, LiveKeys
<1>3. CASE PutAlive
  <2>1. stage = "put" /\ stage' = "next" /\ live' = live /\ Keys(gone') = Keys(gone) \ {cur.id}
    BY <1>0, <1>3, PutDoes
  <2> QED  BY <1>0, <2>1 DEF Departing, LiveKeys
<1>4. CASE Mark
  <2>1. /\ stage = "mark" /\ stage' = "depart" /\ cur' = cur /\ UNCHANGED <<live, recent>>
        /\ Keys(gone') \subseteq Keys(gone) \cup {cur.id}
        /\ \A e \in LiveKeys : InMoving("live", e)'
        /\ \A e \in Keys(recent) : InMoving("recent", e)'
    BY <1>0, <1>4, MarkStepDoes
  <2> QED  BY <1>0, <2>1 DEF Departing, LiveKeys
<1>5. CASE Depart
  <2>1. /\ stage = "depart" /\ stage' = "depart" /\ cur' = cur /\ gone' = gone
        /\ \A r \in Roles : Submap(live'[r], live[r])
        /\ Submap(recent', recent)
        /\ \A e : InMoving("live", e) /\ At(live[RoleOf[e]], e) = cur.id =>
             InMoving("live", e)' \/ e \notin Keys(live'[RoleOf[e]])
        /\ \A e : InMoving("recent", e) /\ At(recent, e) = cur.id =>
             InMoving("recent", e)' \/ e \notin Keys(recent')
    BY <1>0, <1>5, DepartDoes
  <2>2. \A e \in LiveKeys' : /\ e \in LiveKeys /\ e \in Keys(live'[RoleOf[e]])
                             /\ At(live[RoleOf[e]], e) = OwnerOf[e]
    <3> SUFFICES ASSUME NEW r \in Roles, NEW e \in Keys(live'[r])
                 PROVE  /\ e \in LiveKeys /\ e \in Keys(live'[RoleOf[e]])
                        /\ At(live[RoleOf[e]], e) = OwnerOf[e]
      BY DEF LiveKeys
    <3>1. RoleOf[e] = r  BY DEF Placed
    <3>2. e \in Keys(live[r])  BY <2>1 DEF Submap
    <3> QED  BY <1>0, <3>1, <3>2 DEF Placed, LiveKeys
  <2>3. \A e \in LiveKeys' : OwnerOf[e] = cur'.id => InMoving("live", e)'
    BY <1>0, <2>1, <2>2 DEF Departing
  <2>4. \A e \in Keys(recent') : OwnerOf[e] = cur'.id => InMoving("recent", e)'
    BY <1>0, <2>1 DEF Departing, Placed, Submap
  <2>5. \A e \in LiveKeys' : OwnerOf[e] \in Keys(gone') => stage' = "depart" /\ OwnerOf[e] = cur'.id
    BY <1>0, <2>1, <2>2 DEF Departing
  <2> QED  BY <2>3, <2>4, <2>5 DEF Departing
<1>6. CASE RecordLoss
  <2>1. cur.kind = "bornGone" => IsKnown(life, cur.id)  BY DEF IInv, Agree, ActiveIn
  <2>2. stage = "depart" /\ moving = <<>> /\ stage' = "next" /\ UNCHANGED <<live, gone>>
    BY <1>0, <1>6, <2>1, LossDoes DEF Loses
  <2>3. \A e : ~InMoving("live", e)  BY <2>2 DEF InMoving
  <2> QED  BY <1>0, <2>2, <2>3 DEF Departing, LiveKeys
<1>7. ASSUME NEW e \in Endpoints, ApplyAnnounced(e), stage = "next", stage' = stage
      PROVE  Departing'
  <2>1. /\ gone' = gone
        /\ \A r \in Roles : \A f \in Keys(live'[r]) :
             \/ f \in Keys(live[r]) /\ At(live'[r], f) = At(live[r], f)
             \/ /\ f = e /\ r = RoleOf[e] /\ At(live'[r], f) = OwnerOf[e]
                /\ OwnerOf[e] \notin Keys(gone)
    BY <1>0, <1>7, AnnouncedDoes DEF Types
  <2> QED  BY <1>0, <1>7, <2>1, LiveKeysOf DEF Departing, LiveKeys
<1>8. ASSUME NEW e \in Endpoints, NEW t \in Nat, ApplyRemoved(e, t), stage = "next", stage' = stage
      PROVE  Departing'
  <2>1. gone' = gone /\ \A r \in Roles : Submap(live'[r], live[r])
    BY <1>0, <1>8, RemovedDoes DEF Types
  <2> QED  BY <1>0, <1>8, <2>1 DEF Departing, LiveKeys, Submap
<1>9. CASE \E k \in 2..3 : ApplyEndpoint(k)
  BY <1>0, <1>7, <1>8, <1>9, EndpointDoes
<1> QED  BY <1>0, <1>1, <1>2, <1>3, <1>4, <1>5, <1>6, <1>9, Steps

LEMMA OthersStay ==
  ASSUME NEW o, OthersKeep(o), NEW p \in Participants \ {o}, Agrees(p),
         p \in Keys(cached') <=> p \in Keys(cached), p \in Keys(gone') <=> p \in Keys(gone)
  PROVE  Agrees(p)'
<1>1. LeftIn(p)' => LeftIn(p)  BY DEF OthersKeep, LeftIn
<1>2. ActiveIn(p)' => ActiveIn(p)  BY DEF OthersKeep, ActiveIn
<1>3. RoomForAll /\ IsKnown(life, p) => IsKnown(life', p) /\ StatusOf(life', p) = StatusOf(life, p)
  BY DEF OthersKeep
<1>4. RoomForAll => (LeftIn(p) => LeftIn(p)') /\ (ActiveIn(p) => ActiveIn(p)')
  BY <1>3 DEF LeftIn, ActiveIn
<1>5. RoomForAll' <=> RoomForAll  BY DEF RoomForAll
<1> QED  BY <1>1, <1>2, <1>4, <1>5 DEF Agrees

LEMMA AgreeNext ==
  ASSUME IInv, [Next]_vars
  PROVE  Agree'
<1>0. Types /\ Agree /\ NoSample.id \notin Participants /\ NoSample.kind # "bornGone"
  BY EntityAssumption DEF IInv, NoSample
<1>1. CASE UNCHANGED <<life, cached, gone, cur, stage>>
  BY <1>0, <1>1 DEF Agree, Agrees, ActiveIn, LeftIn
<1>2. CASE PickParticipant
  <2>0. PICK i, s : i = Earliest(batch[1]) /\ s = batch[1][i]  OBVIOUS
  <2>1. /\ stage = "next" /\ cur' = s /\ stage' = IF s.kind = "alive" THEN "put" ELSE "mark"
        /\ UNCHANGED <<cached, gone>>
        /\ s.kind # "gone" => ActiveIn(s.id)'
        /\ OthersKeep(s.id)
    BY <1>0, <1>2, <2>0, PickDoes
  <2>2. cur.id \notin Participants  BY <1>0, <2>1, InHand DEF Types
  <2>3. ASSUME NEW p \in Participants \ {s.id}  PROVE Agrees(p)'
    <3>1. Agrees(p)  BY <1>0, <2>2 DEF Agree
    <3> QED  BY <2>1, <3>1, OthersStay
  <2>4. stage' = "put" => s.kind # "gone"  BY <2>1
  <2>5. ActiveIn(cur.id)' <=> ActiveIn(s.id)'  BY <2>1 DEF ActiveIn
  <2> QED  BY <2>1, <2>3, <2>4, <2>5 DEF Agree
<1>3. CASE PutAlive
  <2>1. /\ cur.id \in Participants /\ stage = "put" /\ stage' = "next" /\ cur' = NoSample
        /\ life' = life /\ Keys(gone') = Keys(gone) \ {cur.id}
        /\ cur.id \in Keys(cached') /\ Keys(cached') \subseteq Keys(cached) \cup {cur.id}
        /\ RoomForAll => Keys(cached') = Keys(cached) \cup {cur.id}
    BY <1>0, <1>3, PutDoes
  <2> QED  BY <1>0, <2>1 DEF Agree, Agrees, ActiveIn, LeftIn
<1>4. CASE Mark
  <2>1. /\ stage = "mark" /\ stage' = "depart" /\ cur' = cur /\ UNCHANGED <<life, cached>>
        /\ cur.id \in Keys(gone') /\ Keys(gone') \subseteq Keys(gone) \cup {cur.id}
        /\ RoomForAll => Keys(gone') = Keys(gone) \cup {cur.id}
    BY <1>0, <1>4, MarkStepDoes
  <2> QED  BY <1>0, <2>1 DEF Agree, Agrees, ActiveIn, LeftIn
<1>5. CASE Depart
  <2>1. UNCHANGED <<life, cached, gone, cur, stage>>  BY <1>0, <1>5, DepartDoes
  <2> QED  BY <1>1, <2>1
<1>6. CASE RecordLoss
  <2>1. cur.kind = "bornGone" => IsKnown(life, cur.id)  BY <1>0 DEF Agree, ActiveIn
  <2>2. stage = "depart" /\ stage' = "next" /\ cur' = NoSample /\ Loses(cur.id)
    BY <1>0, <1>6, <2>1, LossDoes
  <2>3. /\ OthersKeep(cur.id) /\ IsKnown(life', cur.id) /\ StatusOf(life', cur.id) = "left"
        /\ Keys(cached') = Keys(cached) \ {cur.id} /\ gone' = gone /\ cur.id \in Keys(gone)
    BY <1>0, <2>2 DEF Agree, Loses, OthersKeep
  <2>4. ASSUME NEW p \in Participants \ {cur.id}  PROVE Agrees(p)'
    <3>1. Agrees(p)  BY <1>0 DEF Agree
    <3> QED  BY <2>3, <3>1, OthersStay
  <2>5. ASSUME NEW p, p = cur.id  PROVE Agrees(p)'
    BY <2>3, <2>5 DEF Agrees, ActiveIn, LeftIn
  <2> QED  BY <1>0, <2>2, <2>4, <2>5 DEF Agree
<1>7. CASE \E k \in 2..3 : ApplyEndpoint(k)
  <2>1. UNCHANGED <<life, cached, gone, cur, stage>>  BY <1>0, <1>7, EndpointDoes
  <2> QED  BY <1>1, <2>1
<1>8. CASE Idle  BY <1>1, <1>8 DEF Idle, caches
<1> QED  BY <1>0, <1>2, <1>3, <1>4, <1>5, <1>6, <1>7, <1>8, Steps

-----------------------------------------------------------------------------
(* The samples on their way: in order, and no more deaths than departures. *)

LEMMA QueueType ==
  ASSUME ThreadType
  PROVE  /\ Queue \in Seq(SampleOf(1)) /\ Len(Queue) \in Nat
         /\ \A i \in 1..Len(Queue) :
              /\ Queue[i] \in SampleOf(1) /\ Queue[i].id \in Participants
              /\ Queue[i].at \in Nat /\ Queue[i].kind \in Kinds
<1>1. 1 \in 1..3  OBVIOUS
<1>2. Queue \in Seq(SampleOf(1))  BY <1>1 DEF ThreadType, Queue
<1>3. \A s \in SampleOf(1) : s.id \in Participants /\ s.at \in Nat /\ s.kind \in Kinds
  BY ReadByReaders, RunAssumption DEF SampleOf
<1> QED  BY <1>2, <1>3, LenProperties, ElementOfSeq

(* Takes by any of the readers, whole or partial.                          *)
LEMMA TakesDo ==
  ASSUME Types, NEW k \in 1..3, Take(k) \/ TakeRaises(k)
  PROVE  /\ pc # "apply" /\ stage = "next" /\ UNCHANGED <<life, cur>>
         /\ \E S \in SUBSET Unread(k) : \E o \in Orders(S) :
              Taking(k, o) /\ Queue' = IF k = 1 THEN Queue \o News(o) ELSE Queue
<1>1. pc # "apply" /\ stage = "next" /\ UNCHANGED <<life, cur>> /\ Queue = sinks[1]
  BY TurnOf DEF Take, TakeRaises, caches, Types, Control, Queue
<1>2. ASSUME NEW S \in SUBSET Unread(k), NEW o \in Orders(S)
      PROVE  Filled(k, o)[1] = IF k = 1 THEN sinks[1] \o News(o) ELSE sinks[1]
  <2>1. BusType /\ ThreadType /\ 1 \in 1..3  BY DEF Types
  <2>2. /\ Filled(k, o)[k] = sinks[k] \o News(o)
        /\ \A j \in 1..3 \ {k} : Filled(k, o)[j] = sinks[j]
    BY <2>1, FilledDoes
  <2> QED  BY <2>1, <2>2
<1>3. CASE TakeRaises(k)
  <2>1. PICK S \in SUBSET Unread(k) : \E o \in Orders(S) : Taking(k, o) /\ sinks' = Filled(k, o)
    BY <1>3 DEF TakeRaises
  <2>2. PICK o \in Orders(S) : Taking(k, o) /\ sinks' = Filled(k, o)  BY <2>1
  <2>3. Queue' = Filled(k, o)[1]  BY <1>3, <2>2 DEF Queue, TakeRaises, Readers
  <2> QED  BY <1>1, <1>2, <2>2, <2>3
<1>4. CASE Take(k)
  <2>1. PICK o \in Orders(Unread(k)) :
          /\ Taking(k, o)
          /\ IF k < 3 THEN pc' = Readers[k + 1] /\ sinks' = Filled(k, o)
             ELSE pc' = "apply" /\ batch' = Filled(k, o)
    BY <1>4 DEF Take
  <2>2. Queue' = Filled(k, o)[1]
    <3>1. CASE k < 3
      <4>1. k + 1 = 2 \/ k + 1 = 3  BY <3>1
      <4>2. pc' # "apply"  BY <2>1, <3>1, <4>1 DEF Readers
      <4> QED  BY <2>1, <3>1, <4>2 DEF Queue
    <3>2. CASE ~(k < 3)  BY <2>1, <3>2 DEF Queue
    <3> QED  BY <3>1, <3>2
  <2>3. Unread(k) \in SUBSET Unread(k)  OBVIOUS
  <2> QED  BY <1>1, <1>2, <2>1, <2>2, <2>3
<1> QED  BY <1>1, <1>3, <1>4

(* A take of endpoints leaves the participants alone.                      *)
LEMMA TakenOf ==
  ASSUME BusType, NEW k \in 1..3, NEW S \in SUBSET Unread(k), NEW o \in Orders(S), Taking(k, o)
  PROVE  /\ UNCHANGED <<stamp, now, departures>>
         /\ \A p \in Participants :
              IF k = 1 /\ Holds(News(o), p) THEN pending'[p] = "none" /\ lastTaken'[p] = pending[p]
              ELSE pending'[p] = pending[p] /\ lastTaken'[p] = lastTaken[p]
<1> DEFINE taken == {o[i] : i \in DOMAIN o}
<1>1. /\ pending' = [x \in Entities |-> IF x \in taken THEN "none" ELSE pending[x]]
      /\ lastTaken' = [p \in Participants |-> IF p \in taken THEN pending[p] ELSE lastTaken[p]]
      /\ UNCHANGED <<stamp, now, departures>>
  BY DEF Taking
<1>2. /\ DOMAIN o = 1..Len(News(o))
      /\ \A i \in 1..Len(News(o)) : o[i] \in S /\ News(o)[i].id = o[i]
  BY NewsOf
<1>3. \A p : p \in taken <=> Holds(News(o), p)  BY <1>2 DEF Holds
<1>4. k # 1 => \A p \in Participants : p \notin taken
  BY <1>2, ReadByReaders, EntityAssumption DEF Unread
<1> HIDE DEF taken
<1> QED  BY <1>1, <1>3, <1>4 DEF Entities

LEMMA ShowsStay ==
  ASSUME NEW o, OthersKeep(o), NEW p \in Participants, p # o, Shows(p),
         lastTaken'[p] = lastTaken[p]
  PROVE  Shows(p)'
<1>1. LeftIn(p)' => LeftIn(p)  BY DEF OthersKeep, LeftIn
<1>2. ActiveIn(p)' => ActiveIn(p)  BY DEF OthersKeep, ActiveIn
<1>3. RoomForAll /\ IsKnown(life, p) => IsKnown(life', p) /\ StatusOf(life', p) = StatusOf(life, p)
  BY DEF OthersKeep
<1>4. RoomForAll => (LeftIn(p) => LeftIn(p)') /\ (ActiveIn(p) => ActiveIn(p)')
  BY <1>3 DEF LeftIn, ActiveIn
<1>5. RoomForAll' <=> RoomForAll  BY DEF RoomForAll
<1> QED  BY <1>1, <1>2, <1>4, <1>5 DEF Shows

LEMMA TakenInOrder ==
  ASSUME Types, InOrder(Queue), NEW S \in SUBSET Unread(1), NEW o \in Orders(S), Taking(1, o),
         Queue' = Queue \o News(o)
  PROVE  InOrder(Queue)' /\ \A p : Holds(Queue, p) \/ Holds(News(o), p) => Holds(Queue, p)'
<1> DEFINE q == Queue
           t == News(o)
           n == Len(q)
           N == Len(q) + Len(t)
<1>1. BusType /\ ThreadType /\ 1 \in 1..3  BY DEF Types
<1>2. /\ q \in Seq(SampleOf(1)) /\ n \in Nat
      /\ \A i \in 1..n : q[i].id \in Participants /\ q[i].at \in Nat
  BY <1>1, QueueType
<1>3. /\ t \in Seq(SampleOf(1))
      /\ \A i \in 1..Len(t) : /\ o[i] \in Participants /\ t[i].id = o[i]
                              /\ t[i].kind = pending[o[i]] /\ t[i].at = stamp[o[i]]
      /\ \A i, j \in 1..Len(t) : t[i].id = t[j].id => i = j
  BY <1>1, NewsOf
<1>4. /\ stamp' = stamp
      /\ \A p \in Participants :
           IF Holds(t, p) THEN lastTaken'[p] = pending[p] ELSE lastTaken'[p] = lastTaken[p]
  BY <1>1, TakenOf
<1>5. /\ \A i \in 1..n : q[i].at <= stamp[q[i].id]
      /\ \A i, j \in 1..n : i < j /\ q[i].id = q[j].id => q[i].at <= q[j].at
      /\ \A i \in 1..n : Last(q, i) => q[i].kind = lastTaken[q[i].id]
  BY DEF InOrder
<1>6. stamp \in [Participants -> 0..MaxTime] /\ MaxTime \in Nat  BY <1>1, RunAssumption DEF BusType
<1> HIDE DEF q, t
<1> DEFINE r == q \o t
<1>7. /\ Len(r) = N /\ Len(t) \in Nat /\ N \in Nat
      /\ \A i \in 1..N : r[i] = IF i <= n THEN q[i] ELSE t[i - n]
  BY <1>2, <1>3, ConcatProperties, LenProperties
<1>8. Queue' = r  BY DEF q, t
<1> HIDE DEF r
<1>9. \A i \in 1..n : i \in 1..N /\ r[i] = q[i]  BY <1>2, <1>7
<1>10. \A i \in 1..Len(t) : n + i \in 1..N /\ r[n + i] = t[i]  BY <1>2, <1>7
<1>11. \A i \in 1..N : i > n => i - n \in 1..Len(t) /\ r[i] = t[i - n]  BY <1>2, <1>7
<1>12. \A i \in 1..N : r[i].at <= stamp[r[i].id]
  <2> SUFFICES ASSUME NEW i \in 1..N PROVE r[i].at <= stamp[r[i].id]  OBVIOUS
  <2>1. CASE i <= n
    <3>1. i \in 1..n  BY <1>2, <1>7, <2>1
    <3> QED  BY <1>5, <1>9, <3>1
  <2>2. CASE i > n
    <3>1. i - n \in 1..Len(t) /\ r[i] = t[i - n]  BY <1>11, <2>2
    <3>2. r[i].at = stamp[r[i].id] /\ r[i].id \in Participants  BY <1>3, <3>1
    <3> QED  BY <1>6, <3>2
  <2> QED  BY <1>2, <1>7, <2>1, <2>2
<1>13. \A i, j \in 1..N : i < j /\ r[i].id = r[j].id => r[i].at <= r[j].at
  <2> SUFFICES ASSUME NEW i \in 1..N, NEW j \in 1..N, i < j, r[i].id = r[j].id
               PROVE  r[i].at <= r[j].at
    OBVIOUS
  <2>1. CASE j <= n
    <3>1. i \in 1..n /\ j \in 1..n  BY <1>2, <1>7, <2>1
    <3> QED  BY <1>5, <1>9, <3>1
  <2>2. CASE j > n
    <3>1. PICK m \in 1..Len(t) : r[j] = t[m]  BY <1>11, <2>2
    <3>2. r[j].at = stamp[r[j].id]  BY <1>3, <3>1
    <3> QED  BY <1>12, <3>2
  <2> QED  BY <1>2, <1>7, <2>1, <2>2
<1>14. \A i \in 1..N : Last(r, i) => r[i].kind = lastTaken'[r[i].id]
  <2> SUFFICES ASSUME NEW i \in 1..N, Last(r, i) PROVE r[i].kind = lastTaken'[r[i].id]  OBVIOUS
  <2>1. \A j \in 1..N : j > i => r[j].id # r[i].id  BY <1>7 DEF Last
  <2>2. CASE i <= n
    <3>1. i \in 1..n /\ r[i] = q[i]  BY <1>2, <1>7, <2>2
    <3>2. \A j \in 1..Len(t) : t[j].id # r[i].id
      <4> SUFFICES ASSUME NEW j \in 1..Len(t) PROVE t[j].id # r[i].id  OBVIOUS
      <4>1. n + j \in 1..N /\ r[n + j] = t[j]  BY <1>10
      <4>2. n + j > i  BY <1>2, <1>7, <2>2
      <4> QED  BY <2>1, <4>1, <4>2
    <3>3. ~Holds(t, r[i].id)  BY <3>2 DEF Holds
    <3>4. Last(q, i)
      <4> SUFFICES ASSUME NEW j \in 1..Len(q), j > i PROVE q[j].id # q[i].id  BY DEF Last
      <4>1. j \in 1..N /\ r[j] = q[j]  BY <1>9
      <4> QED  BY <2>1, <3>1, <4>1
    <3> QED  BY <1>2, <1>4, <1>5, <3>1, <3>3, <3>4
  <2>3. CASE i > n
    <3>1. i - n \in 1..Len(t) /\ r[i] = t[i - n]  BY <1>11, <2>3
    <3>2. Holds(t, r[i].id) /\ r[i].kind = pending[r[i].id] /\ r[i].id \in Participants
      BY <1>3, <3>1 DEF Holds
    <3> QED  BY <1>4, <3>2
  <2> QED  BY <1>2, <1>7, <2>2, <2>3
<1>15. InOrder(Queue)'  BY <1>4, <1>7, <1>8, <1>12, <1>13, <1>14 DEF InOrder, Last
<1>16. \A p : Holds(q, p) \/ Holds(t, p) => Holds(r, p)  BY <1>7, <1>9, <1>10 DEF Holds
<1>17. \A p : Holds(r, p) <=> Holds(Queue, p)'  BY <1>8 DEF Holds
<1> QED  BY <1>15, <1>16, <1>17 DEF q, t

(* Without the sample picked: it was the first of its participant.         *)
LEMMA PickedInOrder ==
  ASSUME NEW q \in Seq(SampleOf(1)), q # <<>>, InOrder(q), NEW i, i = Earliest(q)
  PROVE  /\ InOrder(Without(q, i))
         /\ i \in 1..Len(q)
         /\ ~Holds(Without(q, i), q[i].id) => q[i].kind = lastTaken[q[i].id]
         /\ \A p : Holds(q, p) => p = q[i].id \/ Holds(Without(q, i), p)
<1> DEFINE w == Without(q, i)
           n == Len(q)
<1>1. /\ n \in Nat /\ i \in 1..n
      /\ \A j \in 1..n : q[i].at < q[j].at \/ (q[i].at = q[j].at /\ i <= j)
  BY EarliestOf, LenProperties
<1>2. /\ Len(w) = n - 1
      /\ \A j \in 1..(n - 1) : w[j] = IF j < i THEN q[j] ELSE q[j + 1]
  BY <1>1, WithoutElements
<1>3. \A j \in 1..n : q[j].at \in Nat
  <2>1. \A j \in 1..n : q[j] \in SampleOf(1)  BY ElementOfSeq
  <2> QED  BY <2>1, RunAssumption DEF SampleOf
<1>4. /\ \A j \in 1..n : q[j].at <= stamp[q[j].id]
      /\ \A j, k \in 1..n : j < k /\ q[j].id = q[k].id => q[j].at <= q[k].at
      /\ \A j \in 1..n : Last(q, j) => q[j].kind = lastTaken[q[j].id]
  BY DEF InOrder
<1> HIDE DEF w, n
<1> DEFINE f(j) == IF j < i THEN j ELSE j + 1
           N == n - 1
<1>5. \A j \in 1..N : f(j) \in 1..n /\ f(j) # i /\ w[j] = q[f(j)]  BY <1>1, <1>2
<1>6. \A j, k \in 1..N : j < k => f(j) < f(k)  BY <1>1
<1>7. \A k \in 1..n \ {i} : \E j \in 1..N : k = f(j)
  <2> SUFFICES ASSUME NEW k \in 1..n \ {i} PROVE \E j \in 1..N : k = f(j)  OBVIOUS
  <2>1. CASE k < i
    <3>1. k \in 1..N /\ f(k) = k  BY <1>1, <2>1
    <3> QED  BY <3>1
  <2>2. CASE k > i
    <3>1. k - 1 \in 1..N /\ f(k - 1) = k  BY <1>1, <2>2
    <3> QED  BY <3>1
  <2> QED  BY <1>1, <2>1, <2>2
<1>8. N \in Int /\ n \in Nat /\ i \in Int  BY <1>1
<1>9. \A j, k \in 1..N : f(j) < f(k) => j < k  BY <1>1
<1>10. \A j \in 1..N : f(j) \in Int  BY <1>1
<1>11. \A j \in 1..n : j < i => q[j].id # q[i].id  BY <1>1, <1>3, <1>4
<1> HIDE DEF f, N
<1>12. \A j \in 1..N : w[j].at <= stamp[w[j].id]  BY <1>4, <1>5
<1>13. \A j, k \in 1..N : j < k /\ w[j].id = w[k].id => w[j].at <= w[k].at
  BY <1>4, <1>5, <1>6
<1>14. \A j \in 1..N : Last(w, j) => w[j].kind = lastTaken[w[j].id]
  <2> SUFFICES ASSUME NEW j \in 1..N, Last(w, j) PROVE w[j].kind = lastTaken[w[j].id]
    OBVIOUS
  <2>1. Last(q, f(j))
    <3> SUFFICES ASSUME NEW k \in 1..n, k > f(j) PROVE q[k].id # q[f(j)].id  BY DEF Last, n
    <3>1. CASE k = i
      <4>1. f(j) \in 1..n /\ f(j) < i  BY <1>5, <3>1
      <4> QED  BY <1>11, <3>1, <4>1
    <3>2. CASE k # i
      <4>1. PICK m \in 1..N : k = f(m)  BY <1>7, <3>2
      <4>2. m > j  BY <1>9, <4>1
      <4>3. w[m].id # w[j].id  BY <1>2, <4>2 DEF Last, N
      <4> QED  BY <1>5, <4>1, <4>3
    <3> QED  BY <3>1, <3>2
  <2> QED  BY <1>4, <1>5, <2>1
<1>15. InOrder(w)  BY <1>2, <1>12, <1>13, <1>14 DEF InOrder, N
<1>16. \A k \in 1..n \ {i} : Holds(w, q[k].id)
  <2> SUFFICES ASSUME NEW k \in 1..n \ {i} PROVE Holds(w, q[k].id)  OBVIOUS
  <2>1. PICK j \in 1..N : k = f(j)  BY <1>7
  <2>2. w[j] = q[k]  BY <1>5, <2>1
  <2> QED  BY <1>2, <2>2 DEF Holds, N
<1>17. ~Holds(w, q[i].id) => q[i].kind = lastTaken[q[i].id]
  <2> SUFFICES ASSUME ~Holds(w, q[i].id) PROVE q[i].kind = lastTaken[q[i].id]  OBVIOUS
  <2>1. \A k \in 1..n \ {i} : q[k].id # q[i].id  BY <1>16
  <2>2. Last(q, i)  BY <1>1, <2>1 DEF Last, n
  <2> QED  BY <1>1, <1>4, <2>2
<1>18. \A p : Holds(q, p) => p = q[i].id \/ Holds(w, p)  BY <1>16 DEF Holds, n
<1> QED  BY <1>1, <1>15, <1>17, <1>18 DEF w, n

LEMMA QueuedNext ==
  ASSUME IInv, [Next]_vars
  PROVE  Queued'
<1>0. /\ Types /\ ThreadType /\ Control /\ BusType /\ Agree
      /\ \A p \in Participants : stamp[p] <= now /\ stamp[p] \in Nat
      /\ now \in Nat
      /\ InOrder(Queue)
      /\ \A p \in Participants : ~Holds(Queue, p) =>
           IF cur.id = p THEN cur.kind = lastTaken[p] ELSE Shows(p)
      /\ NoSample.id \notin Participants
  BY RunAssumption, EntityAssumption DEF IInv, Types, Queued, BusType, NoSample
<1> DEFINE Waits == UNCHANGED <<Queue, lastTaken>>
           Aging == /\ \A p \in Participants : stamp[p] <= stamp'[p] /\ stamp'[p] <= now'
                    /\ stamp' \in [Participants -> Nat]
<1>1. Aging /\ Waits => InOrder(Queue)' /\ \A p : Holds(Queue, p)' <=> Holds(Queue, p)
  <2> SUFFICES ASSUME Aging, Waits
               PROVE  InOrder(Queue)' /\ \A p : Holds(Queue, p)' <=> Holds(Queue, p)
    OBVIOUS
  <2>1. \A i \in 1..Len(Queue) : Queue[i].id \in Participants /\ Queue[i].at \in Nat
    BY <1>0, QueueType
  <2>2. \A i \in 1..Len(Queue) : Queue[i].at <= stamp'[Queue[i].id]
    <3> SUFFICES ASSUME NEW i \in 1..Len(Queue) PROVE Queue[i].at <= stamp'[Queue[i].id]
      OBVIOUS
    <3>1. Queue[i].at <= stamp[Queue[i].id]  BY <1>0 DEF InOrder
    <3> HIDE DEF Waits
    <3>2. stamp[Queue[i].id] <= stamp'[Queue[i].id] /\ stamp'[Queue[i].id] \in Nat
          /\ stamp[Queue[i].id] \in Nat
      BY <1>0, <2>1
    <3> QED  BY <2>1, <3>1, <3>2
  <2>3. Queue' = Queue /\ lastTaken' = lastTaken  OBVIOUS
  <2> HIDE DEF Waits, Aging
  <2> QED  BY <1>0, <2>2, <2>3 DEF InOrder, Last, Holds
<1> DEFINE Same == UNCHANGED <<life, cur>>
<1>2. Aging /\ Waits /\ Same => Queued'
  <2> SUFFICES ASSUME Aging, Waits, Same PROVE Queued'  OBVIOUS
  <2>1. InOrder(Queue)' /\ \A p : Holds(Queue, p)' <=> Holds(Queue, p)  BY <1>1
  <2>2. \A p \in Participants : Shows(p)' <=> Shows(p)  BY DEF Shows, LeftIn, ActiveIn, RoomForAll
  <2>3. cur' = cur /\ lastTaken' = lastTaken /\ \A p \in Participants : stamp'[p] <= now'
    OBVIOUS
  <2> HIDE DEF Waits, Aging, Same
  <2> QED  BY <1>0, <2>1, <2>2, <2>3 DEF Queued
<1> HIDE DEF Waits, Aging, Same
<1>3. UNCHANGED <<stamp, now>> => Aging
  <2>1. stamp \in [Participants -> Nat]  BY <1>0, RunAssumption DEF BusType
  <2> QED  BY <1>0, <2>1 DEF Aging
<1>4. Still /\ pc' = pc => Waits /\ Aging
  BY <1>3 DEF Waits, Still, bus, Queue
<1>5. CASE \E x \in Entities : Appears(x) \/ Leaves(x)
  <2>1. PICK x \in Entities : Appears(x) \/ Leaves(x)  BY <1>5
  <2>2. UNCHANGED <<now, caches, thread, lastTaken>>  BY <2>1 DEF Appears, Leaves, history
  <2>3. stamp' = stamp \/ (x \in Participants /\ stamp' = [stamp EXCEPT ![x] = now])
    BY <2>1 DEF Appears, Leaves
  <2>4. Aging
    <3>1. stamp \in [Participants -> Nat]  BY <1>0, RunAssumption DEF BusType
    <3> QED  BY <1>0, <2>2, <2>3, <3>1 DEF Aging
  <2>5. Waits /\ Same  BY <2>2 DEF Waits, Same, thread, caches, Queue
  <2> QED  BY <1>2, <2>4, <2>5
<1>6. CASE Tick
  <2>1. Waits /\ Same /\ now' = now + 1 /\ stamp' = stamp
    BY <1>6 DEF Tick, Waits, Same, thread, caches, Queue, history
  <2>2. stamp \in [Participants -> Nat]  BY <1>0, RunAssumption DEF BusType
  <2>3. Aging  BY <1>0, <2>1, <2>2 DEF Aging
  <2> QED  BY <1>2, <2>1, <2>3
<1>7. CASE \E k \in 1..3 : Take(k) \/ TakeRaises(k)
  <2>1. PICK k \in 1..3 : Take(k) \/ TakeRaises(k)  BY <1>7
  <2>s. PICK S \in SUBSET Unread(k) : \E o \in Orders(S) :
           Taking(k, o) /\ Queue' = IF k = 1 THEN Queue \o News(o) ELSE Queue
    BY <1>0, <2>1, TakesDo
  <2>2. PICK o \in Orders(S) :
          Taking(k, o) /\ Queue' = IF k = 1 THEN Queue \o News(o) ELSE Queue
    BY <2>s
  <2>3. pc # "apply" /\ stage = "next" /\ UNCHANGED <<life, cur>>  BY <1>0, <2>1, TakesDo
  <2>4. /\ UNCHANGED <<stamp, now>>
        /\ \A p \in Participants :
             ~(k = 1 /\ Holds(News(o), p)) => lastTaken'[p] = lastTaken[p]
    BY <1>0, <2>2, TakenOf
  <2>5. InOrder(Queue)' /\ \A p : Holds(Queue, p) \/ (k = 1 /\ Holds(News(o), p)) => Holds(Queue, p)'
    <3>1. CASE k = 1  BY <1>0, <2>2, <3>1, TakenInOrder
    <3>2. CASE k # 1
      <4>1. Queue' = Queue  BY <2>2, <3>2
      <4>2. lastTaken' = lastTaken
        <5>1. \A p \in Participants : lastTaken'[p] = lastTaken[p]  BY <2>4, <3>2
        <5>2. /\ lastTaken \in [Participants -> Kinds \cup {"none"}]
              /\ lastTaken' = [p \in Participants |-> lastTaken'[p]]
          BY <1>0, <2>2 DEF BusType, Taking
        <5> QED  BY <5>1, <5>2
      <4> QED  BY <1>1, <1>3, <2>4, <3>2, <4>1, <4>2 DEF Waits
    <3> QED  BY <3>1, <3>2
  <2>6. ASSUME NEW p \in Participants, ~Holds(Queue, p)'
        PROVE  cur'.id # p /\ Shows(p)'
    <3>1. ~Holds(Queue, p) /\ lastTaken'[p] = lastTaken[p]  BY <2>4, <2>5, <2>6
    <3>2. cur.id # p  BY <1>0, <2>3, InHand
    <3> QED  BY <1>0, <2>3, <3>1, <3>2 DEF Shows, LeftIn, ActiveIn, RoomForAll
  <2> QED  BY <1>0, <2>4, <2>5, <2>6 DEF Queued
<1>8. CASE PickParticipant
  <2>1. PICK i, s : i = Earliest(batch[1]) /\ s = batch[1][i]  OBVIOUS
  <2>2. /\ batch[1] \in Seq(SampleOf(1)) /\ batch[1] # <<>> /\ pc = "apply" /\ stage = "next"
        /\ batch'[1] = Without(batch[1], i) /\ cur' = s
        /\ UNCHANGED <<bus, pc, lastTaken>> /\ OthersKeep(s.id)
    BY <1>0, <1>8, <2>1, PickDoes
  <2>3. Queue = batch[1] /\ Queue' = Without(Queue, i) /\ UNCHANGED <<stamp, now>>
    BY <2>2 DEF Queue, bus
  <2>4. /\ InOrder(Without(Queue, i))
        /\ ~Holds(Without(Queue, i), s.id) => s.kind = lastTaken[s.id]
        /\ \A p : Holds(Queue, p) => p = s.id \/ Holds(Without(Queue, i), p)
    BY <1>0, <2>1, <2>2, <2>3, PickedInOrder
  <2>5. InOrder(Queue)'  BY <2>2, <2>3, <2>4 DEF InOrder, Last
  <2>6. \A p : Holds(Queue, p)' <=> Holds(Without(Queue, i), p)  BY <2>3 DEF Holds
  <2>7. ASSUME NEW p \in Participants, ~Holds(Queue, p)'
        PROVE  IF s.id = p THEN s.kind = lastTaken[p] ELSE Shows(p)'
    <3>1. CASE s.id = p  BY <2>4, <2>6, <2>7, <3>1
    <3>2. CASE s.id # p
      <4>1. ~Holds(Queue, p) /\ cur.id # p  BY <1>0, <2>2, <2>4, <2>6, <2>7, <3>2, InHand
      <4>2. Shows(p)  BY <1>0, <4>1
      <4> QED  BY <2>2, <3>2, <4>2, ShowsStay
    <3> QED  BY <3>1, <3>2
  <2> QED  BY <1>0, <2>2, <2>3, <2>5, <2>7 DEF Queued
<1>9. CASE PutAlive \/ RecordLoss
  <2>1. cur.kind = "bornGone" => IsKnown(life, cur.id)  BY <1>0 DEF Agree, ActiveIn
  <2>2. /\ cur.id \in Participants /\ cur' = NoSample /\ Still /\ OthersKeep(cur.id)
        /\ \/ /\ cur.kind = "alive"
              /\ IsKnown(life', cur.id) /\ StatusOf(life', cur.id) = "active"
           \/ /\ cur.kind \in Dead
              /\ IsKnown(life', cur.id) /\ StatusOf(life', cur.id) = "left"
    <3>1. CASE PutAlive
      <4>1. /\ cur.id \in Participants /\ cur' = NoSample /\ Still /\ life' = life
            /\ stage = "put"
        BY <1>0, <3>1, PutDoes
      <4>2. cur.kind = "alive" /\ ActiveIn(cur.id)  BY <1>0, <4>1 DEF Control, Agree
      <4> QED  BY <4>1, <4>2 DEF OthersKeep, ActiveIn
    <3>2. CASE RecordLoss  BY <1>0, <2>1, <3>2, LossDoes DEF Loses, OthersKeep
    <3> QED  BY <1>9, <3>1, <3>2
  <2>3. Waits /\ Aging  BY <1>4, <2>2 DEF Still
  <2>4. InOrder(Queue)' /\ \A p : Holds(Queue, p)' <=> Holds(Queue, p)  BY <1>1, <2>3
  <2>5. lastTaken' = lastTaken /\ \A p \in Participants : stamp'[p] <= now'
    BY <2>3 DEF Waits, Aging
  <2>6. ASSUME NEW p \in Participants, ~Holds(Queue, p)  PROVE Shows(p)'
    <3>1. CASE cur.id = p
      <4>1. cur.kind = lastTaken[p]  BY <1>0, <2>6, <3>1
      <4> QED  BY <2>2, <2>5, <3>1, <4>1 DEF Shows, LeftIn, ActiveIn, Dead
    <3>2. CASE cur.id # p  BY <1>0, <2>2, <2>5, <2>6, <3>2, ShowsStay
    <3> QED  BY <3>1, <3>2
  <2> QED  BY <1>0, <2>2, <2>4, <2>5, <2>6 DEF Queued
<1>10. CASE Mark  BY <1>0, <1>2, <1>4, <1>10, MarkStepDoes DEF Same, Still
<1>11. CASE Depart  BY <1>0, <1>2, <1>4, <1>11, DepartDoes DEF Same, Still
<1>12. CASE \E k \in 2..3 : ApplyEndpoint(k)
  <2>1. /\ batch'[1] = batch[1] /\ UNCHANGED <<bus, pc, sinks, cur, lastTaken, life>>
    BY <1>0, <1>12, EndpointDoes
  <2> QED  BY <1>2, <1>3, <2>1 DEF Waits, Same, Queue, bus
<1>13. CASE PassDone
  <2>1. /\ pc = "apply" /\ pc' # "apply" /\ batch[1] = <<>>
        /\ UNCHANGED <<bus, caches, sinks, cur, lastTaken>>
    BY <1>0, <1>13, DoneDoes
  <2>2. sinks[1] = <<>>  BY <1>0, <2>1 DEF Control
  <2> QED  BY <1>2, <1>3, <2>1, <2>2 DEF Waits, Same, Queue, bus, caches
<1>14. CASE UNCHANGED vars
  BY <1>2, <1>3, <1>14 DEF vars, Waits, Same, Queue, bus, caches, thread, history
<1> QED
  BY <1>5, <1>6, <1>7, <1>8, <1>9, <1>10, <1>11, <1>12, <1>13, <1>14 DEF Next, Pass, Apply

(* What a take brings of p is at most the sample its reader held.          *)
LEMMA NewsDeaths ==
  ASSUME BusType, NEW S \in SUBSET Unread(1), NEW o \in Orders(S), NEW p \in Participants
  PROVE  Cardinality(Hits(News(o), DeathsOf(p)))
           <= IF Holds(News(o), p) /\ pending[p] \in Dead THEN 1 ELSE 0
<1> DEFINE t == News(o)
           H == Hits(t, DeathsOf(p))
<1>0. 1 \in 1..3  OBVIOUS
<1>1. /\ t \in Seq(SampleOf(1))
      /\ \A i \in 1..Len(t) : t[i].id = o[i] /\ t[i].kind = pending[o[i]]
      /\ \A i, j \in 1..Len(t) : t[i].id = t[j].id => i = j
  BY <1>0, NewsOf
<1> HIDE DEF t
<1>2. \A i \in H : /\ i \in 1..Len(t) /\ t[i].id = p /\ t[i].kind \in Dead
  BY DEF Hits, DeathsOf
<1>3. IsFiniteSet(H) /\ Cardinality(H) \in Nat  BY <1>1, HitsFinite
<1>4. CASE H = {}
  <2>1. Cardinality(H) = 0  BY <1>4, FS_EmptySet
  <2> QED  BY <2>1 DEF t
<1>5. CASE H # {}
  <2>1. PICK i \in H : TRUE  BY <1>5
  <2>2. H = {i}
    <3>1. \A j \in H : j = i  BY <1>1, <1>2, <2>1
    <3> QED  BY <2>1, <3>1
  <2>3. Cardinality(H) = 1
    <3> HIDE DEF H
    <3> QED  BY <2>2, FS_Singleton
  <2>4. Holds(t, p) /\ pending[p] \in Dead  BY <1>1, <1>2, <2>1 DEF Holds
  <2> QED  BY <2>3, <2>4 DEF t
<1> QED  BY <1>4, <1>5

Hand(p)  == IF cur.id = p /\ cur.kind \in Dead THEN 1 ELSE 0
Held(p)  == IF pending[p] \in Dead THEN 1 ELSE 0
Deaths(p) == Cardinality(Hits(Queue, DeathsOf(p)))

LEMMA CountType ==
  ASSUME Types, NEW p
  PROVE  Losses(life, p) \in Nat /\ Deaths(p) \in Nat /\ Hand(p) \in 0..1 /\ Held(p) \in 0..1
<1>1. Losses(life, p) \in Nat  BY LifeFields DEF Types, CachesType
<1>2. Deaths(p) \in Nat  BY QueueType, HitsFinite DEF Types, Deaths
<1> QED  BY <1>1, <1>2 DEF Hand, Held

LEMMA CountedNext ==
  ASSUME IInv, [Next]_vars, Types'
  PROVE  Counted'
<1>0. /\ Types /\ BusType /\ ThreadType /\ Control /\ Agree
      /\ NoSample.kind \notin Dead
  BY DEF IInv, Types, NoSample, Dead
<1> SUFFICES ASSUME NEW p \in Participants
             PROVE  Losses(life', p) + (Deaths(p) + Hand(p) + Held(p))' <= departures'[p]
  BY DEF Counted, Inflight, Deaths, Hand, Held
<1>1. Losses(life, p) + Deaths(p) + Hand(p) + Held(p) <= departures[p]
  <2>1. Losses(life, p) + (Deaths(p) + Hand(p) + Held(p)) <= departures[p]
    BY DEF IInv, Counted, Inflight, Deaths, Hand, Held
  <2>2. departures[p] \in Nat  BY <1>0 DEF BusType
  <2> QED  BY <1>0, <2>1, <2>2, CountType
<1>2. /\ Losses(life, p) \in Nat /\ Deaths(p) \in Nat /\ Hand(p) \in 0..1 /\ Held(p) \in 0..1
      /\ departures[p] \in Nat /\ departures'[p] \in Nat
      /\ Losses(life', p) \in Nat /\ Deaths(p)' \in Nat /\ Hand(p)' \in 0..1 /\ Held(p)' \in 0..1
  <2>1. Losses(life', p) \in Nat  BY LifeFields DEF Types, CachesType
  <2>2. Deaths(p)' \in Nat
    <3>1. 1 \in 1..3 /\ ThreadType'  BY DEF Types
    <3>2. Queue' \in Seq(SampleOf(1))  BY <3>1 DEF ThreadType, Queue
    <3> QED  BY <3>2, HitsFinite DEF Deaths
  <2>3. Hand(p)' \in 0..1 /\ Held(p)' \in 0..1  BY DEF Hand, Held
  <2>4. departures[p] \in Nat /\ departures'[p] \in Nat  BY <1>0 DEF Types, BusType
  <2> QED  BY <1>0, <2>1, <2>2, <2>3, <2>4, CountType
<1> DEFINE Less == /\ Losses(life', p) + Deaths(p)' + Hand(p)' + Held(p)'
                       <= Losses(life, p) + Deaths(p) + Hand(p) + Held(p)
                   /\ departures'[p] = departures[p]
<1>3. Less => Losses(life', p) + (Deaths(p) + Hand(p) + Held(p))' <= departures'[p]
  BY <1>1, <1>2
<1>4. UNCHANGED Queue => Deaths(p)' = Deaths(p)  BY DEF Deaths
<1>5. UNCHANGED cur => Hand(p)' = Hand(p)  BY DEF Hand
<1>6. pending'[p] = pending[p] => Held(p)' = Held(p)  BY DEF Held
<1>7. UNCHANGED <<life, Queue, cur, bus>> => Less  BY <1>2, <1>4, <1>5, <1>6 DEF bus
<1> HIDE DEF Less
<1>8. CASE \E x \in Entities : Appears(x)
  <2>1. PICK x \in Entities : Appears(x)  BY <1>8
  <2>2. /\ UNCHANGED <<departures, life, cur, Queue>>
        /\ pending' = [pending EXCEPT ![x] = "alive"]
    BY <2>1 DEF Appears, thread, caches, Queue
  <2>3. Held(p)' <= Held(p)
    <3>1. pending'[p] = pending[p] \/ pending'[p] = "alive"
      BY <1>0, <2>2 DEF BusType, Entities
    <3> QED  BY <1>2, <3>1 DEF Held, Dead
  <2> QED  BY <1>2, <1>3, <1>4, <1>5, <2>2, <2>3 DEF Less
<1>9. CASE \E x \in Entities : Leaves(x)
  <2>1. PICK x \in Entities : Leaves(x)  BY <1>9
  <2>2. UNCHANGED <<life, cur, Queue>>  BY <2>1 DEF Leaves, thread, caches, Queue
  <2>3. CASE x = p
    <3>1. departures' = [departures EXCEPT ![p] = departures[p] + 1]  BY <2>1, <2>3 DEF Leaves
    <3>2. departures'[p] = departures[p] + 1  BY <1>0, <3>1 DEF BusType
    <3> QED  BY <1>1, <1>2, <1>4, <1>5, <2>2, <3>2
  <2>4. CASE x # p
    <3>1. departures'[p] = departures[p] /\ pending'[p] = pending[p]
      BY <1>0, <2>1, <2>4 DEF Leaves, BusType, Entities
    <3> QED  BY <1>2, <1>3, <1>4, <1>5, <1>6, <2>2, <3>1 DEF Less
  <2> QED  BY <2>3, <2>4
<1>10. CASE Tick
  <2>1. UNCHANGED <<life, Queue, cur, pending, departures>>
    BY <1>10 DEF Tick, thread, caches, Queue
  <2> QED  BY <1>2, <1>3, <1>4, <1>5, <1>6, <2>1 DEF Less
<1>11. CASE \E k \in 1..3 : Take(k) \/ TakeRaises(k)
  <2>1. PICK k \in 1..3 : Take(k) \/ TakeRaises(k)  BY <1>11
  <2>s. PICK S \in SUBSET Unread(k) : \E o \in Orders(S) :
          Taking(k, o) /\ Queue' = IF k = 1 THEN Queue \o News(o) ELSE Queue
    BY <1>0, <2>1, TakesDo
  <2>2. PICK o \in Orders(S) :
          Taking(k, o) /\ Queue' = IF k = 1 THEN Queue \o News(o) ELSE Queue
    BY <2>s
  <2>3. UNCHANGED <<life, cur>>  BY <1>0, <2>1, TakesDo
  <2>4. /\ departures' = departures
        /\ IF k = 1 /\ Holds(News(o), p) THEN pending'[p] = "none" ELSE pending'[p] = pending[p]
    BY <1>0, <2>2, TakenOf
  <2>5. CASE k # 1  BY <1>2, <1>3, <1>4, <1>5, <1>6, <2>2, <2>3, <2>4, <2>5 DEF Less
  <2>6. CASE k = 1
    <3>1. Deaths(p)' <= Deaths(p) + Cardinality(Hits(News(o), DeathsOf(p)))
      <4>1. Queue \in Seq(SampleOf(1)) /\ News(o) \in Seq(SampleOf(1))
        BY <1>0, <2>6, QueueType, NewsOf
      <4>2. Deaths(p)' = Cardinality(Hits(Queue \o News(o), DeathsOf(p)))
        BY <2>2, <2>6 DEF Deaths
      <4> QED  BY <4>1, <4>2, HitsConcat DEF Deaths
    <3>2. Cardinality(Hits(News(o), DeathsOf(p)))
            <= IF Holds(News(o), p) /\ pending[p] \in Dead THEN 1 ELSE 0
      BY <1>0, <2>6, NewsDeaths
    <3>3. Cardinality(Hits(News(o), DeathsOf(p))) \in Nat
      BY <1>0, <2>6, NewsOf, HitsFinite
    <3>4. Held(p)' + (IF Holds(News(o), p) /\ pending[p] \in Dead THEN 1 ELSE 0) <= Held(p)
      BY <2>4, <2>6 DEF Held, Dead
    <3> QED  BY <1>2, <1>3, <1>5, <2>3, <2>4, <3>1, <3>2, <3>3, <3>4 DEF Less
  <2> QED  BY <2>5, <2>6
<1>12. CASE PickParticipant
  <2>1. PICK i, s : i = Earliest(batch[1]) /\ s = batch[1][i]  OBVIOUS
  <2>2. /\ batch[1] \in Seq(SampleOf(1)) /\ i \in 1..Len(batch[1]) /\ s \in SampleOf(1)
        /\ pc = "apply" /\ stage = "next" /\ batch'[1] = Without(batch[1], i) /\ cur' = s
        /\ UNCHANGED <<bus, pc>> /\ Losses(life', p) <= Losses(life, p)
    BY <1>0, <1>12, <2>1, PickDoes
  <2>3. Queue = batch[1] /\ Queue' = Without(batch[1], i)  BY <2>2 DEF Queue
  <2>4. Deaths(p)' = Deaths(p) - (IF s \in DeathsOf(p) THEN 1 ELSE 0)
    <3>1. Cardinality(Hits(Without(batch[1], i), DeathsOf(p)))
            = Cardinality(Hits(batch[1], DeathsOf(p)))
                - (IF batch[1][i] \in DeathsOf(p) THEN 1 ELSE 0)
      BY <2>2, HitsWithout
    <3> QED  BY <2>1, <2>3, <3>1 DEF Deaths
  <2>5. Hand(p)' = IF s \in DeathsOf(p) THEN 1 ELSE 0  BY <2>2 DEF Hand, DeathsOf
  <2>6. Held(p)' = Held(p) /\ departures' = departures  BY <1>6, <2>2 DEF bus
  <2>7. Deaths(p)' + Hand(p)' = Deaths(p)  BY <1>2, <2>4, <2>5
  <2>8. Losses(life', p) + Deaths(p)' + Hand(p)' + Held(p)'
          <= Losses(life, p) + Deaths(p) + Hand(p) + Held(p)
    BY <1>2, <2>2, <2>6, <2>7
  <2> QED  BY <1>3, <2>6, <2>8 DEF Less
<1>13. CASE PutAlive
  <2>1. cur' = NoSample /\ Still /\ life' = life  BY <1>0, <1>13, PutDoes
  <2>2. Hand(p)' = 0  BY <1>0, <2>1 DEF Hand
  <2>3. UNCHANGED <<Queue, pending, departures>>  BY <2>1 DEF Still, Queue, bus
  <2> QED  BY <1>2, <1>3, <1>4, <1>6, <2>1, <2>2, <2>3 DEF Less
<1>14. CASE RecordLoss
  <2>1. cur.kind = "bornGone" => IsKnown(life, cur.id)  BY <1>0 DEF Agree, ActiveIn
  <2>2. /\ cur' = NoSample /\ cur.kind \in Dead /\ Still
        /\ Losses(life', p) <= Losses(life, p) + (IF p = cur.id THEN 1 ELSE 0)
    BY <1>0, <1>14, <2>1, LossDoes DEF Loses
  <2>3. Hand(p)' = 0 /\ Hand(p) = IF p = cur.id THEN 1 ELSE 0  BY <1>0, <2>2 DEF Hand
  <2>4. UNCHANGED <<Queue, pending, departures>>  BY <2>2 DEF Still, Queue, bus
  <2> QED  BY <1>2, <1>3, <1>4, <1>6, <2>2, <2>3, <2>4 DEF Less
<1>15. CASE Mark
  <2>1. UNCHANGED <<life, cur>> /\ Still  BY <1>0, <1>15, MarkStepDoes
  <2> QED  BY <1>3, <1>7, <2>1 DEF Still, Queue
<1>16. CASE Depart
  <2>1. UNCHANGED <<life, cur>> /\ Still  BY <1>0, <1>16, DepartDoes
  <2> QED  BY <1>3, <1>7, <2>1 DEF Still, Queue
<1>17. CASE \E k \in 2..3 : ApplyEndpoint(k)
  <2>1. batch'[1] = batch[1] /\ UNCHANGED <<bus, pc, sinks, cur, life>>
    BY <1>0, <1>17, EndpointDoes
  <2> QED  BY <1>3, <1>7, <2>1 DEF Queue
<1>18. CASE PassDone
  <2>1. /\ pc = "apply" /\ pc' # "apply" /\ batch[1] = <<>> /\ sinks[1] = <<>>
        /\ UNCHANGED <<bus, caches, sinks, cur>>
    BY <1>0, <1>18, DoneDoes DEF Control
  <2> QED  BY <1>3, <1>7, <2>1 DEF Queue, caches
<1>19. CASE UNCHANGED vars
  BY <1>3, <1>7, <1>19 DEF vars, Queue, caches, thread
<1> QED
  BY <1>8, <1>9, <1>10, <1>11, <1>12, <1>13, <1>14, <1>15, <1>16, <1>17, <1>18, <1>19
     DEF Next, Pass, Apply

-----------------------------------------------------------------------------
(* The invariant, and what follows from it.                                *)
LEMMA InvInit ==
  ASSUME Init
  PROVE  IInv
<1>1. Types  BY TypesInit
<1>2. /\ life = [participants |-> <<>>, events |-> <<>>]
      /\ cached = <<>> /\ live = [r \in Roles |-> <<>>] /\ recent = <<>> /\ roles = <<>>
      /\ gone = <<>>
      /\ stage = "next" /\ cur = NoSample /\ sinks[1] = <<>> /\ batch[1] = <<>>
  BY NoneHeld DEF Init, InitCaches, EmptyBuffer
<1>3. Keys(<<>>) = {}  BY DEF Keys
<1>4. Placed  BY <1>2, <1>3 DEF Placed
<1>5. Departing  BY <1>2, <1>3 DEF Departing, LiveKeys
<1>6. \A p : ~ActiveIn(p) /\ ~LeftIn(p)  BY <1>2, <1>3 DEF ActiveIn, LeftIn, IsKnown
<1>7. Agree  BY <1>2, <1>3, <1>6 DEF Agree, Agrees, NoSample
<1>8. Queue = <<>>  BY <1>2 DEF Queue
<1>9. Queued
  <2>1. InOrder(Queue)  BY <1>8 DEF InOrder
  <2>2. \A p \in Participants : lastTaken[p] = "none" /\ stamp[p] = 0 /\ now = 1
    BY DEF Init, None
  <2>3. \A p \in Participants : cur.id # p /\ Shows(p)
    BY <1>2, <2>2, EntityAssumption DEF Shows, Dead, NoSample
  <2> QED  BY <2>1, <2>2, <2>3 DEF Queued
<1>10. Counted
  <2> SUFFICES ASSUME NEW p \in Participants
               PROVE  Losses(life, p) + Inflight(p) <= departures[p]
    BY DEF Counted
  <2>1. Losses(life, p) = 0
    <3>1. Hits(<<>>, LossesOf(p)) = {}  BY DEF Hits
    <3> QED  BY <1>2, <3>1, FS_EmptySet DEF Losses
  <2>2. Cardinality(Hits(Queue, DeathsOf(p))) = 0
    <3>1. Hits(<<>>, DeathsOf(p)) = {}  BY DEF Hits
    <3> QED  BY <1>8, <3>1, FS_EmptySet
  <2>3. cur.kind \notin Dead  BY <1>2 DEF NoSample, Dead
  <2>4. pending[p] \notin Dead /\ departures[p] = 0  BY DEF Init, Dead, Entities
  <2> QED  BY <2>1, <2>2, <2>3, <2>4 DEF Inflight
<1> QED  BY <1>1, <1>4, <1>5, <1>7, <1>9, <1>10 DEF IInv

LEMMA InvNext ==
  ASSUME IInv, [Next]_vars
  PROVE  IInv'
<1>1. Types' /\ Placed'  BY TypesNext, PlacedNext
<1> QED  BY <1>1, DepartingNext, AgreeNext, QueuedNext, CountedNext DEF IInv

(* In every state of every behaviour the invariant holds.                  *)
THEOREM Invariant == Spec => []IInv
<1>1. Init => IInv  BY InvInit
<1>2. IInv /\ [Next]_vars => IInv'  BY InvNext
<1> QED  BY <1>1, <1>2, PTL DEF Spec

(* Every structure the tracker thread grows holds what it should and stays *)
(* within its bound, whatever the bus does and whichever takes raise.      *)
THEOREM TypeCorrect == Spec => []TypeOK
<1>1. IInv => TypeOK
  <2> SUFFICES ASSUME IInv PROVE TypeOK  OBVIOUS
  <2>1. CachesType /\ BusType /\ ThreadType /\ Placed  BY DEF IInv, Types
  <2>2. /\ BoundedMap(life.participants, Participants, MaxParticipants)
        /\ Len(life.events) <= MaxEvents
    <3>1. LifeType(life)  BY <2>1 DEF CachesType
    <3> QED  BY <3>1, LifeFields, MapValues DEF BoundedMap
  <2>3. /\ BoundedMap(cached, Participants, MaxCached)
        /\ BoundedMap(departed, Endpoints, MaxDeparted)
        /\ BoundedMap(recent, Endpoints, MaxRecent)
        /\ BoundedMap(roles, Endpoints, MaxRoles)
        /\ BoundedMap(gone, Participants, MaxGone)
    BY <2>1, MapValues DEF CachesType, BoundedMap
  <2>4. \A r \in Roles : BoundedMap(live[r], {e \in Endpoints : RoleOf[e] = r}, MaxCached)
    <3> SUFFICES ASSUME NEW r \in Roles
                 PROVE  BoundedMap(live[r], {e \in Endpoints : RoleOf[e] = r}, MaxCached)
      OBVIOUS
    <3>1. live[r] \in MapOf(Endpoints, Participants) /\ IsMap(live[r]) /\ Len(live[r]) <= MaxCached
      BY <2>1 DEF CachesType
    <3>2. Keys(live[r]) \subseteq Endpoints  BY <3>1, MapValues
    <3> QED  BY <2>1, <3>1, <3>2 DEF Placed, BoundedMap
  <2>5. \A k \in 1..3 : \A s \in SampleOf(k) : s \in SampleType
    BY ReadByReaders DEF SampleOf, SampleType, Kinds, Dead
  <2>6. \A k \in 1..3 : /\ \A i \in 1..Len(sinks[k]) : sinks[k][i] \in SampleType
                        /\ \A i \in 1..Len(batch[k]) : batch[k][i] \in SampleType
    <3> SUFFICES ASSUME NEW k \in 1..3
                 PROVE  /\ \A i \in 1..Len(sinks[k]) : sinks[k][i] \in SampleType
                        /\ \A i \in 1..Len(batch[k]) : batch[k][i] \in SampleType
      OBVIOUS
    <3>1. sinks[k] \in Seq(SampleOf(k)) /\ batch[k] \in Seq(SampleOf(k))
      BY <2>1 DEF ThreadType
    <3>2. /\ \A i \in 1..Len(sinks[k]) : sinks[k][i] \in SampleOf(k)
          /\ \A i \in 1..Len(batch[k]) : batch[k][i] \in SampleOf(k)
      BY <3>1, ElementOfSeq
    <3> QED  BY <2>5, <3>2
  <2>7. cur \in SampleType \cup {NoSample}  BY <2>1, <2>5 DEF ThreadType
  <2>8. /\ alive \subseteq Entities /\ pending \in [Entities -> {"none", "alive", "bornGone", "gone"}]
        /\ stamp \in [Participants -> 0..MaxTime] /\ now \in 1..MaxTime
    BY <2>1 DEF BusType, Kinds, Dead
  <2> QED  BY <2>1, <2>2, <2>3, <2>4, <2>6, <2>7, <2>8 DEF TypeOK, ThreadType
<1> QED  BY <1>1, Invariant, PTL

(* What a handler's snapshot may never say, however many participants have *)
(* come and gone and been evicted from the bounded maps: that a participant*)
(* is both present and left, or both gone and active; that an endpoint of a*)
(* participant that is gone is live; or an endpoint recently removed that  *)
(* removal_roles cannot place.                                             *)
NeverContradicts ==
  /\ LockFree => /\ \A p \in Participants : /\ ~(p \in Keys(cached) /\ LeftIn(p))
                                            /\ ~(p \in Keys(gone) /\ ActiveIn(p))
                 /\ NoOrphan
  /\ RolesKnown

LEMMA NotInHand ==
  ASSUME IInv, LockFree
  PROVE  stage = "next" /\ Queue = sinks[1] /\ \A p \in Participants : p # cur.id
<1>1. ThreadType /\ Control /\ pc # "apply"  BY DEF IInv, Types, LockFree
<1>2. stage = "next"  BY <1>1 DEF Control
<1>3. cur.id \notin Participants  BY <1>1, <1>2, InHand
<1> QED  BY <1>1, <1>2, <1>3 DEF Queue

THEOREM NoContradiction == Spec => []NeverContradicts
<1>1. IInv => NeverContradicts
  <2> SUFFICES ASSUME IInv PROVE NeverContradicts  OBVIOUS
  <2>1. RolesKnown  BY DEF IInv, Placed, RolesKnown
  <2>2. LockFree => NoOrphan  BY NotInHand DEF IInv, Departing, NoOrphan
  <2>3. LockFree => \A p \in Participants : Agrees(p)  BY NotInHand DEF IInv, Agree
  <2> QED  BY <2>1, <2>2, <2>3 DEF NeverContradicts, Agrees
<1> QED  BY <1>1, Invariant, PTL

(* With room for every participant, what a handler reads while the lock is *)
(* free is whole: cached and active are the same, gone and left are the    *)
(* same, and no endpoint of a participant that left is live.               *)
THEOREM SnapshotsAreWhole ==
  ASSUME RoomForAll
  PROVE  Spec => []SnapshotWhole
<1>1. IInv => SnapshotWhole
  <2> SUFFICES ASSUME IInv PROVE SnapshotWhole  OBVIOUS
  <2>1. RolesKnown  BY DEF IInv, Placed, RolesKnown
  <2>2. LockFree => NoOrphan  BY NotInHand DEF IInv, Departing, NoOrphan
  <2>3. LockFree => \A p \in Participants : Agrees(p)  BY NotInHand DEF IInv, Agree
  <2> QED  BY <2>1, <2>2, <2>3 DEF SnapshotWhole, Agrees
<1> QED  BY <1>1, Invariant, PTL

(* No taken sample is lost although takes raise and batches are sorted:    *)
(* with every sample of a participant applied, its status is what the last *)
(* one taken says; and the log counts no more departures than there were.  *)
LossesCounted ==
  \A p \in Participants :
    Cardinality({i \in 1..Len(life.events) :
                   life.events[i].guid = p /\ life.events[i].type = "lost"}) <= departures[p]

LEMMA CountedLog == ASSUME IInv PROVE LossesCounted
<1> SUFFICES ASSUME NEW p \in Participants
             PROVE  Cardinality({i \in 1..Len(life.events) :
                       life.events[i].guid = p /\ life.events[i].type = "lost"}) <= departures[p]
  BY DEF LossesCounted
<1>1. Types /\ Losses(life, p) + Inflight(p) <= departures[p]  BY DEF IInv, Counted
<1>2. life.events \in Seq(LogEntry)  BY <1>1 DEF Types, CachesType, LifeType
<1>3. Hits(life.events, LossesOf(p)) =
        {i \in 1..Len(life.events) : life.events[i].guid = p /\ life.events[i].type = "lost"}
  <2>1. \A i \in 1..Len(life.events) : life.events[i] \in LogEntry  BY <1>2, ElementOfSeq
  <2> QED  BY <2>1 DEF Hits, LossesOf
<1>4. Losses(life, p) \in Nat /\ Inflight(p) \in Nat /\ departures[p] \in Nat
  <2>1. Inflight(p) = Deaths(p) + Hand(p) + Held(p)  BY DEF Inflight, Deaths, Hand, Held
  <2>2. departures[p] \in Nat  BY <1>1 DEF Types, BusType
  <2> QED  BY <1>1, <2>1, <2>2, CountType
<1> QED  BY <1>1, <1>3, <1>4 DEF Losses

THEOREM LogCountsDepartures == Spec => []LossesCounted
BY Invariant, CountedLog, PTL

THEOREM LossesAreTold ==
  ASSUME RoomForAll
  PROVE  Spec => []LossesAreTrue
<1>1. IInv => LossesAreTrue
  <2> SUFFICES ASSUME IInv, NEW p \in Participants,
                      LockFree, \A i \in 1..Len(sinks[1]) : sinks[1][i].id # p
               PROVE  /\ lastTaken[p] = "alive" => ActiveIn(p)
                      /\ lastTaken[p] \in {"bornGone", "gone"} => LeftIn(p)
    BY CountedLog DEF LossesAreTrue, LossesCounted
  <2>1. Queue = sinks[1] /\ p # cur.id  BY NotInHand
  <2>2. Shows(p)  BY <2>1 DEF IInv, Queued, Holds
  <2> QED  BY <2>2 DEF Shows, Dead
<1> QED  BY <1>1, Invariant, PTL

(* The step that records a participant's loss finds none of its endpoints  *)
(* live or merely remembered as removed: _depart has visited them all.     *)
THEOREM DeparturesAreWhole == Spec => DepartsWhole
<1>1. ASSUME IInv, [Next]_vars, NEW p \in Participants, ActiveIn(p), LeftIn(p)'
      PROVE  \A e \in Owned(p) : e \notin LiveKeys' /\ e \notin Keys(recent)'
  <2>0. Types /\ Departing  BY <1>1 DEF IInv
  <2>1. life' # life  BY <1>1 DEF ActiveIn, LeftIn
  <2>2. ASSUME NEW o, OthersKeep(o)  PROVE p = o
    BY <1>1, <2>2 DEF OthersKeep, ActiveIn, LeftIn
  <2>3. CASE PickParticipant
    <3>1. PICK i, s : i = Earliest(batch[1]) /\ s = batch[1][i]  BY <2>3
    <3>2. /\ s.kind # "gone" => ActiveIn(s.id)'
          /\ s.kind = "gone" => life' = life
          /\ OthersKeep(s.id)
      BY <2>0, <2>3, <3>1, PickDoes
    <3>3. ActiveIn(p)'  BY <2>1, <2>2, <3>2
    <3> QED  BY <1>1, <3>3 DEF ActiveIn, LeftIn
  <2>4. CASE RecordLoss
    <3>1. cur.kind = "bornGone" => IsKnown(life, cur.id)  BY <1>1 DEF IInv, Agree, ActiveIn
    <3>2. stage = "depart" /\ moving = <<>> /\ Loses(cur.id)  BY <2>0, <2>4, <3>1, LossDoes
    <3>3. p = cur.id  BY <2>2, <3>2 DEF Loses, OthersKeep
    <3>4. \A from, e : ~InMoving(from, e)  BY <3>2 DEF InMoving
    <3>5. LiveKeys' = LiveKeys /\ recent' = recent  BY <3>2 DEF Loses, LiveKeys
    <3> QED  BY <2>0, <3>2, <3>3, <3>4, <3>5 DEF Departing, Owned
  <2>5. CASE Idle  BY <2>1, <2>5 DEF Idle, caches
  <2>6. CASE PutAlive  BY <2>0, <2>1, <2>6, PutDoes
  <2>7. CASE Mark  BY <2>0, <2>1, <2>7, MarkStepDoes
  <2>8. CASE Depart  BY <2>0, <2>1, <2>8, DepartDoes
  <2>9. CASE \E k \in 2..3 : ApplyEndpoint(k)  BY <2>0, <2>1, <2>9, EndpointDoes
  <2> QED  BY <1>1, <2>0, <2>3, <2>4, <2>5, <2>6, <2>7, <2>8, <2>9, Steps
<1>2. IInv /\ [Next]_vars =>
        [\A p \in Participants : (ActiveIn(p) /\ LeftIn(p)') =>
           \A e \in Owned(p) : e \notin LiveKeys' /\ e \notin Keys(recent)']_vars
  BY <1>1
<1> QED  BY <1>2, Invariant, PTL DEF Spec, DepartsWhole

=============================================================================

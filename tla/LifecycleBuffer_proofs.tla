------------------------ MODULE LifecycleBuffer_proofs ------------------------
(***************************************************************************)
(* LifecycleBuffer proved for every set of participants and domains, every *)
(* capacity of the map and the ring, and every bound of the clock.         *)
(***************************************************************************)
EXTENDS LifecycleBuffer, OrderedMapLemmas, SequenceTheorems

(* What the model checker assumes of the participants' values.             *)
LEMMA MapTypeIsMapOf == MapType = MapOf(Guids, Participant)
BY DEF MapType, MapOf

LEMMA ActiveIsParticipant == Active \in Participant /\ Active.status = "active"
BY DEF Active, Participant

(* Every entry of m but the one at v is in n.                              *)
Spared(m, n, v) ==
  \A q \in 1..Len(m) : q # v => \E p \in 1..Len(n) : n[p] = m[q]

(* The entry at v left, or none did.                                       *)
Evictable(m, v) ==
  \/ m[v].val.status = "left"
  \/ \A r \in 1..Len(m) : m[r].val.status # "left"

(* Making room gives a map of other entries, and takes an active one only  *)
(* when there is no other kind.                                            *)
LEMMA EvictMap ==
  ASSUME NEW m \in MapOf(Guids, Participant), IsMap(m), Len(m) >= 1
  PROVE  /\ EvictParticipant(m) \in MapOf(Guids, Participant)
         /\ IsMap(EvictParticipant(m))
         /\ Len(EvictParticipant(m)) = Len(m) - 1
         /\ Among(EvictParticipant(m), m)
         /\ \E v \in 1..Len(m) : Spared(m, EvictParticipant(m), v) /\ Evictable(m, v)
<1> DEFINE Victim(v) == EvictParticipant(m) = Without(m, v) /\ Evictable(m, v)
<1>0. Len(m) \in Nat  BY DEF MapOf
<1>1. \E v \in 1..Len(m) : Victim(v)
  <2>1. CASE \E i \in 1..Len(m) : IsLeft(m, i)
    <3> DEFINE First(i) == IsLeft(m, i) /\ \A j \in 1..(i - 1) : ~IsLeft(m, j)
               L == {i \in 1..Len(m) : IsLeft(m, i)}
               v == CHOOSE i \in 1..Len(m) : First(i)
    <3>1. L # {} /\ L \in SUBSET Nat  BY <2>1
    <3>2. PICK i \in L : \A j \in L : i <= j  BY <3>1, LeastElement
    <3>3. v \in 1..Len(m) /\ First(v)  BY <1>0, <3>2
    <3>4. EvictParticipant(m) = Without(m, v)  BY <2>1 DEF EvictParticipant
    <3> QED  BY <3>3, <3>4 DEF IsLeft, Evictable
  <2>2. CASE ~ \E i \in 1..Len(m) : IsLeft(m, i)
    <3>1. EvictParticipant(m) = Without(m, 1) /\ 1 \in 1..Len(m)
      BY <1>0, <2>2 DEF EvictParticipant
    <3> QED  BY <2>2, <3>1 DEF IsLeft, Evictable
  <2> QED  BY <2>1, <2>2
<1>2. PICK v \in 1..Len(m) : Victim(v)  BY <1>1
<1>3. /\ Without(m, v) \in MapOf(Guids, Participant)
      /\ Len(Without(m, v)) = Len(m) - 1
      /\ IsMap(Without(m, v))
      /\ Among(Without(m, v), m)
      /\ Spared(m, Without(m, v), v)
  BY WithoutMap DEF Among, Spared
<1> QED  BY <1>2, <1>3

-----------------------------------------------------------------------------
(* The map n has g's entry e; every other entry of it is one of m.         *)
Updated(m, n, g, e) ==
  /\ n \in MapOf(Guids, Participant)
  /\ IsMap(n)
  /\ Len(n) <= MaxParticipants
  /\ \E p \in 1..Len(n) : n[p] = e
  /\ \A p \in 1..Len(n) :
       \/ n[p] = e
       \/ n[p].key # g /\ \E q \in 1..Len(m) : n[p] = m[q]

(* Every entry of m but g's is still in n.                                 *)
Kept(m, n, g, but) ==
  \A q \in 1..Len(m) : (q # but /\ m[q].key # g) => \E p \in 1..Len(n) : n[p] = m[q]

(* At most one entry of m made room, for a g that m did not hold, and it   *)
(* was one that left or there was none that left.                          *)
MadeRoom(m, n, g) ==
  \/ Kept(m, n, g, 0)
  \/ /\ g \notin Keys(m)
     /\ \E v \in 1..Len(m) : Kept(m, n, g, v) /\ Evictable(m, v)

LEMMA SeenMap ==
  ASSUME TypeOK, NEW g \in Guids, NEW t
  PROVE  /\ Updated(buf.participants, RecordSeen(buf, g, now, t).participants, g, Entry(g, Active))
         /\ MadeRoom(buf.participants, RecordSeen(buf, g, now, t).participants, g)
<1> DEFINE m == buf.participants
           room == IF ~IsKnown(buf, g) /\ Len(m) >= MaxParticipants
                   THEN EvictParticipant(m) ELSE m
           n == Assign(room, g, Active)
<1>0. /\ m \in MapOf(Guids, Participant) /\ IsMap(m) /\ Len(m) <= MaxParticipants
      /\ Len(m) \in Nat
      /\ MaxParticipants \in Nat \ {0}
  BY MapTypeIsMapOf, BoundsAssumption DEF TypeOK, MapOf
<1>1. RecordSeen(buf, g, now, t).participants = n  BY DEF RecordSeen
<1>2. IsKnown(buf, g) <=> g \in Keys(m)  BY DEF IsKnown
<1> HIDE DEF m
<1>3. /\ room \in MapOf(Guids, Participant) /\ IsMap(room)
      /\ Len(room) <= MaxParticipants
      /\ g \notin Keys(room) => Len(room) < MaxParticipants
      /\ Among(room, m)
      /\ \/ room = m
         \/ g \notin Keys(m) /\ \E v \in 1..Len(m) : Spared(m, room, v) /\ Evictable(m, v)
  <2>1. CASE ~IsKnown(buf, g) /\ Len(m) >= MaxParticipants
    <3>1. room = EvictParticipant(m)  BY <2>1
    <3>2. Len(m) >= 1  BY <1>0, <2>1
    <3>3. /\ EvictParticipant(m) \in MapOf(Guids, Participant)
          /\ IsMap(EvictParticipant(m))
          /\ Len(EvictParticipant(m)) = Len(m) - 1
          /\ Among(EvictParticipant(m), m)
          /\ \E v \in 1..Len(m) : Spared(m, EvictParticipant(m), v) /\ Evictable(m, v)
      BY <1>0, <3>2, EvictMap
    <3> HIDE DEF room
    <3> QED  BY <1>0, <1>2, <2>1, <3>1, <3>3
  <2>2. CASE ~(~IsKnown(buf, g) /\ Len(m) >= MaxParticipants)
    <3>1. room = m  BY <2>2
    <3> HIDE DEF room
    <3> QED  BY <1>0, <1>2, <2>2, <3>1 DEF Among
  <2> QED  BY <2>1, <2>2
<1> HIDE DEF room
<1>4. /\ n \in MapOf(Guids, Participant)
      /\ IsMap(n)
      /\ Len(n) = IF g \in Keys(room) THEN Len(room) ELSE Len(room) + 1
      /\ \A p \in 1..Len(n) :
           \/ n[p] = Entry(g, Active)
           \/ n[p].key # g /\ \E q \in 1..Len(room) : n[p] = room[q]
      /\ \E p \in 1..Len(n) : n[p] = Entry(g, Active)
      /\ \A q \in 1..Len(room) : room[q].key # g => \E p \in 1..Len(n) : n[p] = room[q]
  BY <1>3, AssignMap, ActiveIsParticipant
<1>5. Len(n) <= MaxParticipants
  <2>1. Len(room) \in Nat  BY <1>3 DEF MapOf
  <2> QED  BY <1>0, <1>3, <1>4, <2>1
<1> HIDE DEF n
<1>7. \A p \in 1..Len(n) :
        \/ n[p] = Entry(g, Active)
        \/ n[p].key # g /\ \E q \in 1..Len(m) : n[p] = m[q]
  <2>1. Among(room, m)  BY <1>3
  <2>2. \A p \in 1..Len(n) :
          \/ n[p] = Entry(g, Active)
          \/ n[p].key # g /\ \E q \in 1..Len(room) : n[p] = room[q]
    BY <1>4
  <2> QED  BY <2>1, <2>2 DEF Among
<1>8. ASSUME NEW q \in 1..Len(m), m[q].key # g,
             NEW p \in 1..Len(room), room[p] = m[q]
      PROVE  \E i \in 1..Len(n) : n[i] = m[q]
  BY <1>4, <1>8
<1>9. Updated(m, n, g, Entry(g, Active))
  BY <1>4, <1>5, <1>7 DEF Updated
<1>10. MadeRoom(m, n, g)
  <2>1. CASE room = m
    <3>1. Kept(m, n, g, 0)  BY <1>8, <2>1 DEF Kept
    <3> QED  BY <3>1 DEF MadeRoom
  <2>2. CASE room # m
    <3>1. PICK v \in 1..Len(m) : Spared(m, room, v) /\ Evictable(m, v)  BY <1>3, <2>2
    <3>2. Kept(m, n, g, v)  BY <1>8, <3>1 DEF Kept, Spared
    <3> QED  BY <1>3, <2>2, <3>1, <3>2 DEF MadeRoom
  <2> QED  BY <2>1, <2>2
<1> QED  BY <1>1, <1>9, <1>10 DEF m

(* The map after a recorded loss: g left, every other entry is an old one. *)
Gone(at) == [status |-> "left", lost |-> at]

LEMMA LostMap ==
  ASSUME TypeOK, NEW g \in Keys(buf.participants), NEW at \in {None} \cup Times
  PROVE  /\ Updated(buf.participants, Assign(buf.participants, g, Gone(at)), g, Entry(g, Gone(at)))
         /\ MadeRoom(buf.participants, Assign(buf.participants, g, Gone(at)), g)
<1> DEFINE m == buf.participants
           n == Assign(m, g, Gone(at))
<1>1. m \in MapOf(Guids, Participant) /\ IsMap(m) /\ Len(m) <= MaxParticipants
  BY MapTypeIsMapOf DEF TypeOK
<1>2. g \in Guids /\ Gone(at) \in Participant
  <2>1. PICK i \in 1..Len(m) : m[i].key = g  BY DEF Keys
  <2>2. g \in Guids  BY <1>1, <2>1, EntryFields
  <2> QED  BY <2>2 DEF Gone, Participant
<1>3. g \in Keys(m)  OBVIOUS
<1> HIDE DEF m
<1>4. /\ n \in MapOf(Guids, Participant)
      /\ IsMap(n)
      /\ Len(n) = Len(m)
      /\ \A p \in 1..Len(n) :
           \/ n[p] = Entry(g, Gone(at))
           \/ n[p].key # g /\ \E q \in 1..Len(m) : n[p] = m[q]
      /\ \E p \in 1..Len(n) : n[p] = Entry(g, Gone(at))
      /\ \A q \in 1..Len(m) : m[q].key # g => \E p \in 1..Len(n) : n[p] = m[q]
  BY <1>1, <1>2, <1>3, AssignMap
<1> HIDE DEF n
<1>5. Updated(m, n, g, Entry(g, Gone(at))) /\ MadeRoom(m, n, g)
  BY <1>1, <1>4 DEF Updated, MadeRoom, Kept
<1> QED  BY <1>5 DEF m, n

-----------------------------------------------------------------------------
(* Every operation has one of two effects on the buffer: the log is left   *)
(* alone and nobody's status changes, or one event is pushed about g and   *)
(* g's entry is set to match it.                                           *)
Logs(g, e, val) ==
  /\ e \in EventType
  /\ e.guid = g
  /\ e.type = "discovered" <=> val.status = "active"
  /\ e.type = "discovered" => ~(IsKnown(buf, g) /\ StatusOf(buf, g) = "active")
  /\ e.type = "lost" => IsKnown(buf, g) /\ StatusOf(buf, g) = "active" /\ val.lost = e.at
  /\ e.source = Local => e.at = e.observed
  /\ e.at <= e.observed
  /\ Updated(buf.participants, buf'.participants, g, Entry(g, val))
  /\ MadeRoom(buf.participants, buf'.participants, g)
  /\ buf'.events = Push(buf.events, e, MaxEvents)

Silent(g) ==
  /\ IsKnown(buf, g)
  /\ StatusOf(buf, g) = "active"
  /\ Updated(buf.participants, buf'.participants, g, Entry(g, Active))
  /\ MadeRoom(buf.participants, buf'.participants, g)
  /\ buf'.events = buf.events

LEMMA SeenEffect ==
  ASSUME TypeOK, NEW g \in Guids, NEW t \in Stamps, buf' = RecordSeen(buf, g, now, t)
  PROVE  \/ Silent(g)
         \/ \E e \in EventType : Logs(g, e, Active)
<1>1. /\ Updated(buf.participants, buf'.participants, g, Entry(g, Active))
      /\ MadeRoom(buf.participants, buf'.participants, g)
  BY SeenMap
<1>2. CASE IsKnown(buf, g) /\ StatusOf(buf, g) = "active"
  <2>1. buf'.events = buf.events  BY <1>2 DEF RecordSeen
  <2> QED  BY <1>1, <1>2, <2>1 DEF Silent
<1>3. CASE ~(IsKnown(buf, g) /\ StatusOf(buf, g) = "active")
  <2> DEFINE e == Discovered(g, now, t)
  <2>1. buf'.events = Push(buf.events, e, MaxEvents)  BY <1>3 DEF RecordSeen
  <2>2. /\ e \in EventType /\ e.guid = g /\ e.type = "discovered"
        /\ e.source = Local => e.at = e.observed
        /\ e.at <= e.observed
    BY TimeAssumption
    DEF TypeOK, Times, Stamps, None, Discovered, Event, EventType, Local, Dds
  <2>3. Active.status = "active"  BY ActiveIsParticipant
  <2> HIDE DEF e
  <2>4. Logs(g, e, Active)  BY <1>1, <1>3, <2>1, <2>2, <2>3 DEF Logs
  <2> QED  BY <2>2, <2>4
<1> QED  BY <1>2, <1>3

LEMMA LostEffect ==
  ASSUME TypeOK, NEW g \in Guids, NEW t \in Stamps, buf' = RecordLost(buf, g, now, t)
  PROVE  \/ buf' = buf
         \/ \E e \in EventType, at \in Times : Logs(g, e, Gone(at))
<1>1. CASE ~IsKnown(buf, g) \/ StatusOf(buf, g) = "left"
  BY <1>1 DEF RecordLost
<1>2. CASE ~(~IsKnown(buf, g) \/ StatusOf(buf, g) = "left")
  <2> DEFINE at == IF t = None THEN now ELSE t
             e  == Event(g, "lost", at, IF t = None THEN Local ELSE Dds, now)
  <2>1. g \in Keys(buf.participants)  BY <1>2 DEF IsKnown
  <2>2. StatusOf(buf, g) = "active"
    <3>1. PICK i \in 1..Len(buf.participants) : buf.participants[i].key = g
      BY <2>1 DEF Keys
    <3>2. buf.participants \in MapOf(Guids, Participant) /\ IsMap(buf.participants)
      BY MapTypeIsMapOf DEF TypeOK
    <3>3. At(buf.participants, g) = buf.participants[i].val  BY <3>1, <3>2, AtEntry
    <3>4. buf.participants[i].val \in Participant  BY <3>2, EntryFields
    <3> QED  BY <1>2, <3>3, <3>4 DEF StatusOf, Participant
  <2>3. at \in Times /\ at <= now /\ now \in Times
    BY TimeAssumption DEF TypeOK, Times, Stamps, None
  <2>4. /\ e \in EventType /\ e.guid = g /\ e.type = "lost" /\ e.at = at
        /\ e.source = Local => e.at = e.observed
        /\ e.at <= e.observed
    BY <2>3 DEF Event, EventType, Local, Dds
  <2>5. /\ buf'.participants = Assign(buf.participants, g, Gone(at))
        /\ buf'.events = Push(buf.events, e, MaxEvents)
    BY <1>2 DEF RecordLost, Gone
  <2>6. /\ Updated(buf.participants, buf'.participants, g, Entry(g, Gone(at)))
        /\ MadeRoom(buf.participants, buf'.participants, g)
    BY <2>1, <2>3, <2>5, LostMap
  <2>7. Gone(at).status = "left" /\ Gone(at).lost = at  BY DEF Gone
  <2> HIDE DEF e, at
  <2>8. Logs(g, e, Gone(at))
    BY <1>2, <2>2, <2>4, <2>5, <2>6, <2>7 DEF Logs
  <2> QED  BY <2>3, <2>4, <2>8
<1> QED  BY <1>1, <1>2

-----------------------------------------------------------------------------
Correct == /\ TypeOK
           /\ StatusAgrees
           /\ LossCountedOnce
           /\ LossOnRecord
           /\ SourcesNotMixed

(* The new log: the old one, less d of its oldest events, then e.          *)
Shifted(e, d) ==
  /\ Len(buf.events) \in Nat
  /\ Len(buf'.events) = Len(buf.events) + 1 - d
  /\ buf'.events[Len(buf'.events)] = e
  /\ \A i \in 1..Len(buf'.events) : i # Len(buf'.events) =>
       i + d \in 1..Len(buf.events) /\ buf'.events[i] = buf.events[i + d]
  /\ \A j \in 1..Len(buf.events) : j > d =>
       /\ j - d \in 1..Len(buf'.events)
       /\ j - d < Len(buf'.events)
       /\ buf'.events[j - d] = buf.events[j]

LEMMA LogsShifts ==
  ASSUME TypeOK, NEW g, NEW val, NEW e \in EventType, Logs(g, e, val)
  PROVE  /\ buf'.events \in Seq(EventType)
         /\ Len(buf'.events) <= MaxEvents
         /\ \E d \in {0, 1} : Shifted(e, d) /\ (d = 1 => Len(buf'.events) = MaxEvents)
<1> DEFINE s == buf.events
           r == Push(s, e, MaxEvents)
<1>1. /\ s \in Seq(EventType) /\ Len(s) <= MaxEvents
      /\ MaxEvents \in Nat \ {0} /\ Len(s) \in Nat
  BY BoundsAssumption DEF TypeOK
<1>2. buf'.events = r  BY DEF Logs
<1> HIDE DEF s
<1> DEFINE d == Dropped(s, MaxEvents)
<1>3. /\ d \in {0, 1}
      /\ d = 0 <=> Len(s) < MaxEvents
      /\ r \in Seq(EventType)
      /\ Len(r) = Len(s) + 1 - d
      /\ Len(r) <= MaxEvents
      /\ r[Len(s) + 1 - d] = e
      /\ \A i \in 1..(Len(s) - d) : r[i] = s[i + d]
  <2>1. d \in {0, 1} /\ (d = 0 <=> Len(s) < MaxEvents)  BY DEF Dropped
  <2> QED  BY <1>1, <2>1, PushElements
<1> HIDE DEF r, d
<1>4. d = 1 => Len(r) = MaxEvents  BY <1>1, <1>3
<1>5. \A i \in 1..Len(r) : i # Len(r) => i + d \in 1..Len(s) /\ r[i] = s[i + d]
  <2> TAKE i \in 1..Len(r)
  <2> HAVE i # Len(r)
  <2>1. i \in 1..(Len(s) - d) /\ i + d \in 1..Len(s)  BY <1>1, <1>3
  <2> QED  BY <1>3, <2>1
<1>6. ASSUME NEW j \in 1..Len(s), j > d
      PROVE  j - d \in 1..Len(r) /\ j - d < Len(r) /\ r[j - d] = s[j]
  <2>0. d \in {0, 1}  BY <1>3
  <2>1. j - d \in 1..(Len(s) - d) /\ (j - d) + d = j  BY <1>1, <1>6, <2>0
  <2>2. r[j - d] = s[j]  BY <1>3, <2>1
  <2> QED  BY <1>1, <1>3, <2>1, <2>2
<1>7. Shifted(e, d)
  BY <1>1, <1>2, <1>3, <1>5, <1>6 DEF Shifted, s
<1> QED  BY <1>2, <1>3, <1>4, <1>7

(* What a known participant's index says of StatusOf.                      *)
LEMMA StatusAt ==
  ASSUME TypeOK, NEW p \in 1..Len(buf.participants)
  PROVE  /\ IsKnown(buf, buf.participants[p].key)
         /\ StatusOf(buf, buf.participants[p].key) = buf.participants[p].val.status
<1>1. buf.participants \in MapOf(Guids, Participant) /\ IsMap(buf.participants)
  BY MapTypeIsMapOf DEF TypeOK
<1> QED  BY <1>1, AtEntry DEF IsKnown, StatusOf

LEMMA StatusAgreesStep ==
  ASSUME TypeOK, StatusAgrees, NEW g, NEW val, NEW e \in EventType, Logs(g, e, val)
  PROVE  StatusAgrees'
<1>0. PICK d \in {0, 1} : Shifted(e, d)  BY LogsShifts
<1> SUFFICES ASSUME NEW p \in 1..Len(buf'.participants), NEW i \in 1..Len(buf'.events),
                    buf'.events[i].guid = buf'.participants[p].key,
                    \A j \in 1..Len(buf'.events) :
                      buf'.events[j].guid = buf'.events[i].guid => j <= i
             PROVE  buf'.events[i].type = "discovered"
                      <=> buf'.participants[p].val.status = "active"
  BY DEF StatusAgrees, LastWord
<1>2. \/ buf'.participants[p] = Entry(g, val)
      \/ /\ buf'.participants[p].key # g
         /\ \E q \in 1..Len(buf.participants) : buf'.participants[p] = buf.participants[q]
  BY DEF Logs, Updated
<1>3. CASE i = Len(buf'.events)
  <2>1. buf'.events[i] = e  BY <1>0, <1>3 DEF Shifted
  <2>2. buf'.participants[p] = Entry(g, val)  BY <1>2, <2>1 DEF Logs
  <2> QED  BY <2>1, <2>2 DEF Logs, Entry
<1>4. CASE i # Len(buf'.events)
  <2>1. i + d \in 1..Len(buf.events) /\ buf'.events[i] = buf.events[i + d]
    BY <1>0, <1>4 DEF Shifted
  <2>2. buf'.events[Len(buf'.events)].guid = g /\ Len(buf'.events) \in 1..Len(buf'.events)
    BY <1>0 DEF Shifted, Logs
  <2>3. buf'.events[i].guid # g  BY <1>4, <2>2
  <2>4. PICK q \in 1..Len(buf.participants) : buf'.participants[p] = buf.participants[q]
    BY <1>2, <2>3 DEF Entry
  <2>5. LastWord(i + d)
    <3> SUFFICES ASSUME NEW j \in 1..Len(buf.events),
                        buf.events[j].guid = buf.events[i + d].guid, j > i + d
                 PROVE  FALSE
      BY <2>1 DEF LastWord
    <3>1. j > d /\ j - d > i  OBVIOUS
    <3>2. j - d \in 1..Len(buf'.events) /\ buf'.events[j - d] = buf.events[j]
      BY <1>0, <3>1 DEF Shifted
    <3>3. buf'.events[j - d].guid = buf'.events[i].guid  BY <2>1, <3>2
    <3>4. j - d <= i  BY <3>2, <3>3
    <3> QED  BY <3>1, <3>4
  <2> QED  BY <2>1, <2>4, <2>5 DEF StatusAgrees
<1> QED  BY <1>3, <1>4

LEMMA LossCountedOnceStep ==
  ASSUME TypeOK, StatusAgrees, LossCountedOnce,
         NEW g, NEW val, NEW e \in EventType, Logs(g, e, val)
  PROVE  LossCountedOnce'
<1>0. PICK d \in {0, 1} : Shifted(e, d)  BY LogsShifts
<1> SUFFICES ASSUME NEW i \in 1..Len(buf'.events), NEW j \in 1..Len(buf'.events), i < j,
                    buf'.events[i].guid = buf'.events[j].guid,
                    \A k \in (i + 1)..(j - 1) : buf'.events[k].guid # buf'.events[i].guid,
                    buf'.events[i].type = "lost", buf'.events[j].type = "lost"
             PROVE  FALSE
  BY DEF LossCountedOnce
<1>2. i + d \in 1..Len(buf.events) /\ buf'.events[i] = buf.events[i + d]
  BY <1>0 DEF Shifted
<1>3. ASSUME NEW k \in 1..Len(buf.events), k > i + d, k < j + d
      PROVE  buf.events[k].guid # buf.events[i + d].guid
  <2>1. k > d /\ k - d \in (i + 1)..(j - 1)  BY <1>3
  <2>2. buf'.events[k - d] = buf.events[k]  BY <1>0, <2>1 DEF Shifted
  <2> QED  BY <1>2, <2>1, <2>2
<1>4. CASE j = Len(buf'.events)
  <2>1. buf'.events[j] = e  BY <1>0, <1>4 DEF Shifted
  <2>2. PICK p \in 1..Len(buf.participants) : buf.participants[p].key = g
    BY <2>1 DEF Logs, IsKnown, Keys
  <2>3. buf.participants[p].val.status = "active"  BY <2>1, <2>2, StatusAt DEF Logs
  <2>4. LastWord(i + d)
    <3> SUFFICES ASSUME NEW k \in 1..Len(buf.events),
                        buf.events[k].guid = buf.events[i + d].guid, k > i + d
                 PROVE  FALSE
      BY <1>2 DEF LastWord
    <3>1. k < j + d  BY <1>0, <1>4 DEF Shifted
    <3> QED  BY <1>3, <3>1
  <2>5. buf.events[i + d].guid = g  BY <1>2, <2>1 DEF Logs
  <2>6. buf.events[i + d].type = "discovered"
    BY <1>2, <2>2, <2>3, <2>4, <2>5 DEF StatusAgrees
  <2> QED  BY <1>2, <2>6
<1>5. CASE j # Len(buf'.events)
  <2>1. j + d \in 1..Len(buf.events) /\ buf'.events[j] = buf.events[j + d] /\ i + d < j + d
    BY <1>0, <1>5 DEF Shifted
  <2>2. \A k \in ((i + d) + 1)..((j + d) - 1) : buf.events[k].guid # buf.events[i + d].guid
    <3> TAKE k \in ((i + d) + 1)..((j + d) - 1)
    <3>1. k \in 1..Len(buf.events) /\ k > i + d /\ k < j + d  BY <1>2, <2>1
    <3> QED  BY <1>3, <3>1
  <2> QED  BY <1>2, <2>1, <2>2 DEF LossCountedOnce
<1> QED  BY <1>4, <1>5

LEMMA LossOnRecordStep ==
  ASSUME TypeOK, LossOnRecord, NEW g, NEW val, NEW e \in EventType, Logs(g, e, val)
  PROVE  LossOnRecord'
<1>0. PICK d \in {0, 1} : Shifted(e, d) /\ (d = 1 => Len(buf'.events) = MaxEvents)
  BY LogsShifts
<1> SUFFICES ASSUME NEW p \in 1..Len(buf'.participants),
                    buf'.participants[p].val.status = "left",
                    Len(buf'.events) < MaxEvents
             PROVE  \E i \in 1..Len(buf'.events) :
                      /\ buf'.events[i].guid = buf'.participants[p].key
                      /\ buf'.events[i].type = "lost"
                      /\ buf'.events[i].at = buf'.participants[p].val.lost
                      /\ \A j \in 1..Len(buf'.events) :
                           buf'.events[j].guid = buf'.events[i].guid => j <= i
  BY DEF LossOnRecord, LastWord
<1>1. d = 0 /\ Len(buf.events) < MaxEvents  BY <1>0, BoundsAssumption DEF Shifted
<1>2. Len(buf'.events) \in 1..Len(buf'.events) /\ buf'.events[Len(buf'.events)] = e
  BY <1>0 DEF Shifted
<1>3. CASE buf'.participants[p] = Entry(g, val)
  <2>1. val.status = "left"  BY <1>3 DEF Entry
  <2>2. e.guid = g /\ e.type = "lost" /\ e.at = val.lost
    BY <2>1 DEF Logs, EventType
  <2>3. \A j \in 1..Len(buf'.events) : j <= Len(buf'.events)  OBVIOUS
  <2> QED  BY <1>2, <1>3, <2>2, <2>3 DEF Entry
<1>4. CASE buf'.participants[p] # Entry(g, val)
  <2>1. PICK q \in 1..Len(buf.participants) :
          buf'.participants[p] = buf.participants[q] /\ buf.participants[q].key # g
    BY <1>4 DEF Logs, Updated
  <2>2. PICK i \in 1..Len(buf.events) :
          /\ buf.events[i].guid = buf.participants[q].key
          /\ buf.events[i].type = "lost"
          /\ buf.events[i].at = buf.participants[q].val.lost
          /\ LastWord(i)
    BY <1>1, <2>1 DEF LossOnRecord
  <2>3. i \in 1..Len(buf'.events) /\ buf'.events[i] = buf.events[i]
    BY <1>0, <1>1, <2>2 DEF Shifted
  <2>4. ASSUME NEW j \in 1..Len(buf'.events), buf'.events[j].guid = buf'.events[i].guid
        PROVE  j <= i
    <3>1. j # Len(buf'.events)  BY <1>2, <2>1, <2>2, <2>3, <2>4 DEF Logs
    <3>2. j \in 1..Len(buf.events) /\ buf'.events[j] = buf.events[j]
      BY <1>0, <1>1, <3>1 DEF Shifted
    <3> QED  BY <2>2, <2>3, <2>4, <3>2 DEF LastWord
  <2> QED  BY <2>1, <2>2, <2>3, <2>4
<1> QED  BY <1>3, <1>4

LEMMA SourcesNotMixedStep ==
  ASSUME TypeOK, SourcesNotMixed, NEW g, NEW val, NEW e \in EventType, Logs(g, e, val)
  PROVE  SourcesNotMixed'
<1>0. PICK d \in {0, 1} : Shifted(e, d)  BY LogsShifts
<1> SUFFICES ASSUME NEW i \in 1..Len(buf'.events)
             PROVE  /\ buf'.events[i].source = Local => buf'.events[i].at = buf'.events[i].observed
                    /\ buf'.events[i].at <= buf'.events[i].observed
  BY DEF SourcesNotMixed
<1>1. CASE i = Len(buf'.events)  BY <1>0, <1>1 DEF Shifted, Logs
<1>2. CASE i # Len(buf'.events)
  <2>1. i + d \in 1..Len(buf.events) /\ buf'.events[i] = buf.events[i + d]
    BY <1>0, <1>2 DEF Shifted
  <2> QED  BY <2>1 DEF SourcesNotMixed
<1> QED  BY <1>1, <1>2

-----------------------------------------------------------------------------
(* A silent step rewrites g's entry with the status it had.                *)
LEMMA SilentStep ==
  ASSUME Correct, NEW g, Silent(g)
  PROVE  StatusAgrees' /\ LossCountedOnce' /\ LossOnRecord' /\ SourcesNotMixed'
<1>1. buf'.events = buf.events  BY DEF Silent
<1>2. PICK k \in 1..Len(buf.participants) :
        buf.participants[k].key = g /\ buf.participants[k].val.status = "active"
  BY StatusAt DEF Correct, Silent, IsKnown, Keys
<1>3. ASSUME NEW p \in 1..Len(buf'.participants)
      PROVE  \E q \in 1..Len(buf.participants) :
               /\ buf'.participants[p].key = buf.participants[q].key
               /\ buf'.participants[p].val.status = buf.participants[q].val.status
               /\ buf.participants[q].val.status = "left" =>
                    buf'.participants[p].val.lost = buf.participants[q].val.lost
  <2>1. CASE buf'.participants[p] = Entry(g, Active)
    BY <1>2, <2>1, ActiveIsParticipant DEF Entry
  <2>2. CASE buf'.participants[p] # Entry(g, Active)
    BY <2>2 DEF Silent, Updated
  <2> QED  BY <2>1, <2>2
<1>4. StatusAgrees'
  <2> SUFFICES ASSUME NEW p \in 1..Len(buf'.participants), NEW i \in 1..Len(buf'.events),
                      buf'.events[i].guid = buf'.participants[p].key, LastWord(i)'
               PROVE  buf'.events[i].type = "discovered"
                        <=> buf'.participants[p].val.status = "active"
    BY DEF StatusAgrees
  <2>1. PICK q \in 1..Len(buf.participants) :
               /\ buf'.participants[p].key = buf.participants[q].key
               /\ buf'.participants[p].val.status = buf.participants[q].val.status
    BY <1>3
  <2>2. LastWord(i)  BY <1>1 DEF LastWord
  <2> QED  BY <1>1, <2>1, <2>2 DEF Correct, StatusAgrees
<1>5. LossOnRecord'
  <2> SUFFICES ASSUME NEW p \in 1..Len(buf'.participants),
                      buf'.participants[p].val.status = "left",
                      Len(buf'.events) < MaxEvents
               PROVE  \E i \in 1..Len(buf'.events) :
                        /\ buf'.events[i].guid = buf'.participants[p].key
                        /\ buf'.events[i].type = "lost"
                        /\ buf'.events[i].at = buf'.participants[p].val.lost
                        /\ LastWord(i)'
    BY DEF LossOnRecord
  <2>1. PICK q \in 1..Len(buf.participants) :
               /\ buf'.participants[p].key = buf.participants[q].key
               /\ buf'.participants[p].val.status = buf.participants[q].val.status
               /\ buf.participants[q].val.status = "left" =>
                    buf'.participants[p].val.lost = buf.participants[q].val.lost
    BY <1>3
  <2>2. \A i : LastWord(i)' <=> LastWord(i)  BY <1>1 DEF LastWord
  <2> QED  BY <1>1, <2>1, <2>2 DEF Correct, LossOnRecord
<1>6. LossCountedOnce' /\ SourcesNotMixed'
  BY <1>1 DEF Correct, LossCountedOnce, SourcesNotMixed
<1> QED  BY <1>4, <1>5, <1>6

(* What a sighting or a loss does to the buffer, its type included.        *)
BufferOK ==
  /\ buf \in [participants : MapType, events : Seq(EventType)]
  /\ IsMap(buf.participants)
  /\ Len(buf.participants) <= MaxParticipants
  /\ Len(buf.events) <= MaxEvents

Sound == BufferOK /\ StatusAgrees /\ LossCountedOnce /\ LossOnRecord /\ SourcesNotMixed

LEMMA SameBuffer ==
  ASSUME Correct, buf' = buf
  PROVE  Sound'
<1>1. BufferOK'  BY DEF Correct, TypeOK, BufferOK
<1>2. \A i : LastWord(i)' <=> LastWord(i)  BY DEF LastWord
<1>3. StatusAgrees'  BY <1>2 DEF Correct, StatusAgrees
<1>4. LossCountedOnce'  BY DEF Correct, LossCountedOnce
<1>5. LossOnRecord'  BY <1>2 DEF Correct, LossOnRecord
<1>6. SourcesNotMixed'  BY DEF Correct, SourcesNotMixed
<1> QED  BY <1>1, <1>3, <1>4, <1>5, <1>6 DEF Sound

LEMMA LogsStep ==
  ASSUME Correct, NEW g, NEW val, NEW e \in EventType, Logs(g, e, val),
         buf' = [participants |-> buf'.participants, events |-> buf'.events]
  PROVE  Sound'
<1>1. /\ buf'.participants \in MapType /\ IsMap(buf'.participants)
      /\ Len(buf'.participants) <= MaxParticipants
  BY MapTypeIsMapOf DEF Logs, Updated
<1>2. buf'.events \in Seq(EventType) /\ Len(buf'.events) <= MaxEvents
  BY LogsShifts DEF Correct
<1>3. BufferOK'  BY <1>1, <1>2 DEF BufferOK
<1> QED  BY <1>3, StatusAgreesStep, LossCountedOnceStep, LossOnRecordStep, SourcesNotMixedStep
         DEF Correct, Sound

LEMMA SeenStep ==
  ASSUME Correct, NEW g \in Guids, NEW t \in Stamps, buf' = RecordSeen(buf, g, now, t)
  PROVE  Sound'
<1>1. buf' = [participants |-> buf'.participants, events |-> buf'.events]  BY DEF RecordSeen
<1>2. CASE Silent(g)
  <2>1. BufferOK'
    BY <1>1, <1>2, MapTypeIsMapOf DEF Silent, Updated, BufferOK, Correct, TypeOK
  <2> QED  BY <1>2, <2>1, SilentStep DEF Sound
<1>3. CASE \E e \in EventType : Logs(g, e, Active)
  BY <1>1, <1>3, LogsStep
<1> QED  BY <1>2, <1>3, SeenEffect DEF Correct

LEMMA LostStep ==
  ASSUME Correct, NEW g \in Guids, NEW t \in Stamps, buf' = RecordLost(buf, g, now, t)
  PROVE  Sound'
<1>1. CASE buf' = buf  BY <1>1, SameBuffer
<1>2. CASE buf' # buf
  <2>1. buf' = [participants |-> buf'.participants, events |-> buf'.events]
    BY <1>2 DEF RecordLost
  <2>2. PICK e \in EventType, at \in Times : Logs(g, e, Gone(at))
    BY <1>2, LostEffect DEF Correct
  <2> QED  BY <2>1, <2>2, LogsStep
<1> QED  BY <1>1, <1>2

-----------------------------------------------------------------------------
(* The five invariants together are inductive.                             *)
LEMMA InitCorrect == Init => Correct
<1> SUFFICES ASSUME Init PROVE Correct  OBVIOUS
<1>1. TypeOK
  BY BoundsAssumption, TimeAssumption, DomainAssumption
  DEF Init, EmptyBuffer, TypeOK, MapType, IsMap, Times, NoPoll
<1> QED
  BY <1>1 DEF Init, EmptyBuffer, Correct, StatusAgrees, LossCountedOnce, LossOnRecord,
              SourcesNotMixed

LEMMA NextCorrect == Correct /\ [Next]_vars => Correct'
<1> SUFFICES ASSUME Correct, [Next]_vars PROVE Correct'  OBVIOUS
<1> DEFINE Rest == now' \in Times /\ todo' \in MapType /\ poll' \in [observed : SUBSET Guids, domain : Domains]
<1>0. ASSUME Sound', Rest PROVE Correct'
  BY <1>0 DEF Sound, BufferOK, Correct, TypeOK
<1>1. ASSUME buf' = buf, Rest PROVE Correct'  BY <1>0, <1>1, SameBuffer
<1>2. CASE Tick
  <2>1. Rest  BY <1>2, TimeAssumption DEF Tick, Correct, TypeOK, Times
  <2> QED  BY <1>1, <1>2, <2>1 DEF Tick
<1>3. ASSUME NEW g \in Guids, NEW t \in Stamps, Seen(g, t) PROVE Correct'
  <2>1. Rest  BY <1>3 DEF Seen, Correct, TypeOK
  <2> QED  BY <1>0, <1>3, <2>1, SeenStep DEF Seen
<1>4. ASSUME NEW g \in Guids, NEW t \in Stamps, Lost(g, t) PROVE Correct'
  <2>1. Rest  BY <1>4 DEF Lost, Correct, TypeOK
  <2> QED  BY <1>0, <1>4, <2>1, LostStep DEF Lost
<1>5. ASSUME NEW observed \in SUBSET Guids, NEW d \in Domains, ReconcileStart(observed, d)
      PROVE  Correct'
  <2>1. Rest  BY <1>5 DEF ReconcileStart, Correct, TypeOK
  <2> QED  BY <1>1, <1>5, <2>1 DEF ReconcileStart
<1>6. CASE ReconcileNext
  <2>1. todo \in MapOf(Guids, Participant) /\ 1 \in 1..Len(todo) /\ Head(todo) = todo[1]
    BY <1>6, MapTypeIsMapOf DEF ReconcileNext, LockFree, Correct, TypeOK, MapOf
  <2>2. Head(todo).key \in Guids  BY <2>1, EntryFields
  <2>3. NoPoll \in [observed : SUBSET Guids, domain : Domains]
    BY DomainAssumption DEF NoPoll
  <2>4. Rest
    BY <1>6, <2>3 DEF ReconcileNext, LockFree, Correct, TypeOK, MapType
  <2>5. CASE Missing(Head(todo))
    <3>1. buf' = RecordLost(buf, Head(todo).key, now, None)  BY <1>6, <2>5 DEF ReconcileNext
    <3> QED  BY <1>0, <2>2, <2>4, <3>1, LostStep DEF Stamps
  <2>6. CASE ~Missing(Head(todo))  BY <1>1, <1>6, <2>4, <2>6 DEF ReconcileNext
  <2> QED  BY <2>5, <2>6
<1>7. CASE UNCHANGED vars
  <2>1. Rest  BY <1>7 DEF vars, Correct, TypeOK
  <2> QED  BY <1>1, <1>7, <2>1 DEF vars
<1> QED  BY <1>2, <1>3, <1>4, <1>5, <1>6, <1>7 DEF Next

(* The buffer is well-typed and bounded, its map and its log agree, a loss *)
(* is counted once and stays on record, and clocks are not mixed.          *)
THEOREM BufferCorrect ==
  Spec => [](TypeOK /\ StatusAgrees /\ LossCountedOnce /\ LossOnRecord /\ SourcesNotMixed)
<1>1. Init => Correct  BY InitCorrect
<1>2. Correct /\ [Next]_vars => Correct'  BY NextCorrect
<1>3. Correct => TypeOK /\ StatusAgrees /\ LossCountedOnce /\ LossOnRecord /\ SourcesNotMixed
  BY DEF Correct
<1> QED  BY <1>1, <1>2, <1>3, PTL DEF Spec

-----------------------------------------------------------------------------
(* Eviction prefers tombstones: what a step forgets of the active ones, it *)
(* forgets for want of any other.                                          *)
LEMMA RoomTombstones ==
  ASSUME Correct, NEW g, NEW e, Updated(buf.participants, buf'.participants, g, e), e.key = g,
         MadeRoom(buf.participants, buf'.participants, g),
         NEW p \in 1..Len(buf.participants),
         buf.participants[p].val.status = "active",
         buf.participants[p].key \notin Keys(buf'.participants)
  PROVE  \A q \in 1..Len(buf.participants) : buf.participants[q].val.status = "active"
<1> DEFINE m == buf.participants
           n == buf'.participants
<1>1. m \in MapOf(Guids, Participant)  BY MapTypeIsMapOf DEF Correct, TypeOK
<1>2. m[p].key # g
  <2>1. g \in Keys(n)  BY DEF Updated, Keys
  <2> QED  BY <2>1
<1>3. ~ \E i \in 1..Len(n) : n[i] = m[p]  BY DEF Keys
<1>4. PICK v \in 1..Len(m) : Kept(m, n, g, v) /\ Evictable(m, v)
  <2>1. ~Kept(m, n, g, 0)
    <3>1. p # 0  BY <1>1 DEF MapOf
    <3> QED  BY <1>2, <1>3, <3>1 DEF Kept
  <2> QED  BY <2>1 DEF MadeRoom
<1>5. v = p  BY <1>2, <1>3, <1>4 DEF Kept
<1>6. \A r \in 1..Len(m) : m[r].val.status # "left"  BY <1>4, <1>5 DEF Evictable
<1>7. \A r \in 1..Len(m) : m[r].val \in Participant  BY <1>1, EntryFields
<1> QED  BY <1>6, <1>7 DEF Participant

(* The change a sighting or a loss makes, for the proofs about steps.      *)
Change ==
  \/ buf' = buf
  \/ \E g \in Guids : Silent(g)
  \/ \E g \in Guids, e \in EventType, val \in Participant : Logs(g, e, val)

LEMMA EveryStepChanges ==
  ASSUME Correct, [Next]_vars
  PROVE  Change
<1>0. Active \in Participant /\ \A at \in Times : Gone(at) \in Participant
  BY ActiveIsParticipant DEF Gone, Participant
<1>1. CASE buf' = buf  BY <1>1 DEF Change
<1>2. ASSUME NEW g \in Guids, NEW t \in Stamps, Seen(g, t) PROVE Change
  <2>1. buf' = RecordSeen(buf, g, now, t)  BY <1>2 DEF Seen
  <2> QED  BY <1>0, <2>1, SeenEffect DEF Change, Correct
<1>3. ASSUME NEW g \in Guids, NEW t \in Stamps, buf' = RecordLost(buf, g, now, t) PROVE Change
  BY <1>0, <1>3, LostEffect DEF Change, Correct
<1>4. CASE ReconcileNext
  <2>1. todo \in MapOf(Guids, Participant) /\ 1 \in 1..Len(todo) /\ Head(todo) = todo[1]
    BY <1>4, MapTypeIsMapOf DEF ReconcileNext, LockFree, Correct, TypeOK, MapOf
  <2>2. Head(todo).key \in Guids /\ None \in Stamps  BY <2>1, EntryFields DEF Stamps
  <2> QED  BY <1>1, <1>3, <1>4, <2>2 DEF ReconcileNext
<1> QED  BY <1>1, <1>2, <1>3, <1>4
         DEF Next, Tick, Lost, ReconcileStart, vars

THEOREM ForgetsTombstonesFirst == Spec => TombstonesFirst
<1> DEFINE Forgotten(p) ==
      /\ buf.participants[p].val.status = "active"
      /\ buf.participants[p].key \notin Keys(buf'.participants)
           Step == \A p \in 1..Len(buf.participants) :
      Forgotten(p) => \A q \in 1..Len(buf.participants) :
                        buf.participants[q].val.status = "active"
<1>1. Correct /\ [Next]_vars => Step
  <2> SUFFICES ASSUME Correct, [Next]_vars, NEW p \in 1..Len(buf.participants), Forgotten(p)
               PROVE  \A q \in 1..Len(buf.participants) :
                        buf.participants[q].val.status = "active"
    OBVIOUS
  <2>1. CASE buf' = buf  BY <2>1 DEF Keys
  <2>2. ASSUME NEW g \in Guids, Silent(g)
        PROVE  \A q \in 1..Len(buf.participants) : buf.participants[q].val.status = "active"
    BY <2>2, RoomTombstones DEF Silent, Entry
  <2>3. ASSUME NEW g \in Guids, NEW e \in EventType, NEW val \in Participant, Logs(g, e, val)
        PROVE  \A q \in 1..Len(buf.participants) : buf.participants[q].val.status = "active"
    BY <2>3, RoomTombstones DEF Logs, Entry
  <2> QED  BY <2>1, <2>2, <2>3, EveryStepChanges DEF Change
<1>2. Correct /\ [Next]_vars => [Step]_vars  BY <1>1
<1> QED  BY <1>2, InitCorrect, NextCorrect, PTL DEF Spec, TombstonesFirst

-----------------------------------------------------------------------------
(* What changes of the statuses of ParticipantLog when g's entry is set.   *)
LEMMA EntryStatus ==
  ASSUME NEW b, b.participants \in MapOf(Guids, Participant), IsMap(b.participants),
         NEW p \in 1..Len(b.participants)
  PROVE  /\ IsKnown(b, b.participants[p].key)
         /\ StatusOf(b, b.participants[p].key) = b.participants[p].val.status
BY AtEntry DEF IsKnown, StatusOf

OthersSame(g, h) == \A x \in Guids : (x # g /\ x # h) => Status(buf', x) = Status(buf, x)

Forgets(g, h) ==
  /\ h # g
  /\ Status(buf, g) = "absent"
  /\ Status(buf', h) = "absent"
  /\ \/ Status(buf, h) = "left"
     \/ Status(buf, h) = "active" /\ \A x \in Guids : Status(buf, x) # "left"
  /\ OthersSame(g, h)

LEMMA StatusChange ==
  ASSUME Correct, NEW g \in Guids, NEW val \in Participant,
         Updated(buf.participants, buf'.participants, g, Entry(g, val)),
         MadeRoom(buf.participants, buf'.participants, g)
  PROVE  /\ Status(buf', g) = val.status
         /\ \/ OthersSame(g, g)
            \/ \E h \in Guids : Forgets(g, h)
<1> DEFINE m == buf.participants
           n == buf'.participants
<1>1. m \in MapOf(Guids, Participant) /\ IsMap(m)
  BY MapTypeIsMapOf DEF Correct, TypeOK
<1>2. n \in MapOf(Guids, Participant) /\ IsMap(n)  BY DEF Updated
<1>3. ASSUME NEW p \in 1..Len(m)
      PROVE  m[p].key \in Keys(m) /\ Status(buf, m[p].key) = m[p].val.status
  <2>1. IsKnown(buf, m[p].key) /\ StatusOf(buf, m[p].key) = m[p].val.status
    BY <1>1, EntryStatus
  <2> QED  BY <2>1 DEF Status, IsKnown
<1>4. ASSUME NEW p \in 1..Len(n)
      PROVE  n[p].key \in Keys(n) /\ Status(buf', n[p].key) = n[p].val.status
  <2>1. IsKnown(buf', n[p].key) /\ StatusOf(buf', n[p].key) = n[p].val.status
    BY <1>2, EntryStatus
  <2> QED  BY <2>1 DEF Status, IsKnown
<1>5. Status(buf', g) = val.status
  <2>1. PICK p \in 1..Len(n) : n[p] = Entry(g, val)  BY DEF Updated
  <2> QED  BY <1>4, <2>1 DEF Entry
<1>6. \A x : x \notin Keys(m) => Status(buf, x) = "absent"  BY DEF Status, IsKnown
<1>7. \A x : x \notin Keys(n) => Status(buf', x) = "absent"  BY DEF Status, IsKnown
<1>8. ASSUME NEW x \in Keys(n), x # g
      PROVE  x \in Keys(m) /\ Status(buf', x) = Status(buf, x)
  <2>1. PICK p \in 1..Len(n) : n[p].key = x  BY DEF Keys
  <2>2. PICK q \in 1..Len(m) : n[p] = m[q]  BY <1>8, <2>1 DEF Updated, Entry
  <2> QED  BY <1>3, <1>4, <2>1, <2>2 DEF Keys
<1>9. ASSUME NEW but, Kept(m, n, g, but), NEW x \in Keys(m), x # g,
             \A q \in 1..Len(m) : m[q].key = x => q # but
      PROVE  x \in Keys(n)
  <2>1. PICK q \in 1..Len(m) : m[q].key = x  BY DEF Keys
  <2>2. PICK p \in 1..Len(n) : n[p] = m[q]  BY <1>9, <2>1 DEF Kept
  <2> QED  BY <2>1, <2>2 DEF Keys
<1>10. CASE Kept(m, n, g, 0)
  <2>1. \A q \in 1..Len(m) : q # 0  BY <1>1 DEF MapOf
  <2>2. \A x : (x \in Keys(m) /\ x # g) => x \in Keys(n)  BY <1>9, <1>10, <2>1
  <2>3. OthersSame(g, g)  BY <1>6, <1>7, <1>8, <2>2 DEF OthersSame
  <2> QED  BY <1>5, <2>3
<1>11. CASE ~Kept(m, n, g, 0)
  <2>1. g \notin Keys(m)  BY <1>11 DEF MadeRoom
  <2>2. PICK v \in 1..Len(m) : Kept(m, n, g, v) /\ Evictable(m, v)  BY <1>11 DEF MadeRoom
  <2> DEFINE h == m[v].key
  <2>3. h \in Keys(m) /\ h \in Guids /\ h # g /\ m[v].val \in Participant
    BY <1>1, <2>1, EntryFields DEF Keys
  <2>4. \A x : (x \in Keys(m) /\ x # g /\ x # h) => x \in Keys(n)  BY <1>9, <2>2
  <2>5. CASE h \in Keys(n)
    <3>1. OthersSame(g, g)  BY <1>6, <1>7, <1>8, <2>4, <2>5 DEF OthersSame
    <3> QED  BY <1>5, <3>1
  <2>6. CASE h \notin Keys(n)
    <3>1. OthersSame(g, h)  BY <1>6, <1>7, <1>8, <2>4 DEF OthersSame
    <3>2. Status(buf', h) = "absent" /\ Status(buf, g) = "absent"  BY <1>6, <1>7, <2>1, <2>6
    <3>3. Status(buf, h) = m[v].val.status /\ m[v].val.status \in {"active", "left"}
      BY <1>3, <2>3 DEF Participant
    <3>4. (\A r \in 1..Len(m) : m[r].val.status # "left") => \A x \in Guids : Status(buf, x) # "left"
      <4> SUFFICES ASSUME \A r \in 1..Len(m) : m[r].val.status # "left", NEW x \in Guids
                   PROVE  Status(buf, x) # "left"
        OBVIOUS
      <4>1. CASE x \in Keys(m)
        <5>1. PICK r \in 1..Len(m) : m[r].key = x  BY <4>1 DEF Keys
        <5> QED  BY <1>3, <5>1
      <4>2. CASE x \notin Keys(m)  BY <1>6, <4>2
      <4> QED  BY <4>1, <4>2
    <3>5. Forgets(g, h)  BY <2>2, <2>3, <3>1, <3>2, <3>3, <3>4 DEF Forgets, Evictable
    <3> QED  BY <1>5, <2>3, <3>5
  <2> QED  BY <2>5, <2>6
<1> QED  BY <1>10, <1>11 DEF MadeRoom

-----------------------------------------------------------------------------
(* The log of ParticipantLog under the refinement, and its length.         *)
LogEntry == [guid : Guids, type : {"discovered", "lost"}]

LEMMA LogOfEvents ==
  ASSUME NEW s \in Seq(EventType)
  PROVE  /\ LogOf(s) \in Seq(LogEntry)
         /\ Len(LogOf(s)) = Len(s)
         /\ \A i \in 1..Len(s) : LogOf(s)[i] = [guid |-> s[i].guid, type |-> s[i].type]
<1>1. Len(s) \in Nat /\ \A i \in 1..Len(s) : s[i] \in EventType  OBVIOUS
<1>2. \A i \in 1..Len(s) : [guid |-> s[i].guid, type |-> s[i].type] \in LogEntry
  BY <1>1 DEF EventType, LogEntry
<1> HIDE DEF EventType
<1> DEFINE f == LogOf(s)
<1>3. f = [i \in 1..Len(s) |-> [guid |-> s[i].guid, type |-> s[i].type]]  BY DEF LogOf
<1>4. f \in [1..Len(s) -> LogEntry]  BY <1>2, <1>3
<1>5. \A i \in 1..Len(s) : f[i] = [guid |-> s[i].guid, type |-> s[i].type]  BY <1>3
<1> HIDE DEF f
<1>6. f \in Seq(LogEntry) /\ Len(f) = Len(s)  BY <1>1, <1>4
<1> QED  BY <1>5, <1>6 DEF f

(* Pushing an event pushes what the log shows of it.                       *)
LEMMA LogPush ==
  ASSUME TypeOK, NEW g \in Guids, NEW val, NEW e \in EventType, Logs(g, e, val)
  PROVE  LET longer == Append(LogOf(buf.events), [guid |-> g, type |-> e.type])
         IN LogOf(buf'.events) = IF Len(longer) <= MaxEvents THEN longer ELSE Tail(longer)
<1> DEFINE s == buf.events
           r == buf'.events
           x == [guid |-> g, type |-> e.type]
           longer == Append(LogOf(s), x)
           pushed == IF Len(longer) <= MaxEvents THEN longer ELSE Tail(longer)
<1>1. s \in Seq(EventType) /\ Len(s) <= MaxEvents /\ MaxEvents \in Nat \ {0}
  BY BoundsAssumption DEF TypeOK
<1>2. r \in Seq(EventType) /\ Len(r) <= MaxEvents  BY LogsShifts
<1>3. PICK d \in {0, 1} : Shifted(e, d) /\ (d = 1 => Len(r) = MaxEvents)  BY LogsShifts
<1>4. x \in LogEntry /\ e.guid = g
  BY DEF Logs, LogEntry, EventType
<1>5. /\ LogOf(s) \in Seq(LogEntry) /\ Len(LogOf(s)) = Len(s)
      /\ \A i \in 1..Len(s) : LogOf(s)[i] = [guid |-> s[i].guid, type |-> s[i].type]
  BY <1>1, LogOfEvents
<1>6. /\ LogOf(r) \in Seq(LogEntry) /\ Len(LogOf(r)) = Len(r)
      /\ \A i \in 1..Len(r) : LogOf(r)[i] = [guid |-> r[i].guid, type |-> r[i].type]
  BY <1>2, LogOfEvents
<1>7. /\ Len(s) \in Nat /\ Len(r) = Len(s) + 1 - d /\ r[Len(r)] = e
      /\ \A i \in 1..Len(r) : i # Len(r) => i + d \in 1..Len(s) /\ r[i] = s[i + d]
  BY <1>3 DEF Shifted
<1> HIDE DEF s, r, x
<1>8. /\ longer \in Seq(LogEntry) /\ Len(longer) = Len(s) + 1 /\ longer[Len(s) + 1] = x
      /\ \A i \in 1..Len(s) : longer[i] = LogOf(s)[i]
  BY <1>4, <1>5, <1>7
<1> HIDE DEF longer
<1>9. /\ pushed \in Seq(LogEntry) /\ Len(pushed) = Len(r)
      /\ \A i \in 1..Len(r) : pushed[i] = longer[i + d]
  <2>1. CASE d = 0
    <3>1. Len(longer) <= MaxEvents  BY <1>2, <1>7, <1>8, <2>1
    <3> QED  BY <1>7, <1>8, <2>1, <3>1
  <2>2. CASE d = 1
    <3>1. Len(longer) > MaxEvents  BY <1>3, <1>7, <1>8, <2>2
    <3>2. pushed = Tail(longer)  BY <1>1, <1>8, <3>1
    <3> QED  BY <1>7, <1>8, <2>2, <3>2
  <2> QED  BY <2>1, <2>2
<1> HIDE DEF pushed
<1>10. ASSUME NEW i \in 1..Len(r) PROVE LogOf(r)[i] = pushed[i]
  <2>1. CASE i = Len(r)
    <3>1. i + d = Len(s) + 1  BY <1>7, <2>1
    <3>2. pushed[i] = x  BY <1>8, <1>9, <3>1
    <3> QED  BY <1>4, <1>6, <1>7, <2>1, <3>2 DEF x
  <2>2. CASE i # Len(r)
    <3>1. i + d \in 1..Len(s) /\ r[i] = s[i + d]  BY <1>7, <2>2
    <3>2. pushed[i] = LogOf(s)[i + d]  BY <1>8, <1>9, <3>1
    <3> QED  BY <1>5, <1>6, <3>1, <3>2
  <2> QED  BY <2>1, <2>2
<1>11. LogOf(r) = pushed  BY <1>6, <1>9, <1>10, SeqEqual
<1> QED  BY <1>11 DEF pushed, longer, r, s, x

(* The initial state and every step of the buffer are ones of its promise. *)
LEMMA PromiseInit == Init => Promise!Init
<1> SUFFICES ASSUME Init PROVE Promise!Init  OBVIOUS
<1>1. buf.participants = <<>> /\ buf.events = <<>>  BY DEF Init, EmptyBuffer
<1>2. \A g \in Guids : Status(buf, g) = "absent"  BY <1>1 DEF Status, IsKnown, Keys
<1>3. LogOf(buf.events) = <<>>  BY <1>1 DEF LogOf
<1> QED  BY <1>2, <1>3 DEF Promise!Init, LogOf

LEMMA PromiseStep ==
  ASSUME Correct, [Next]_vars
  PROVE  [Promise!Next]_<<[g \in Guids |-> Status(buf, g)], LogOf(buf.events)>>
<1> DEFINE st == [g \in Guids |-> Status(buf, g)]
<1>1. CASE buf' = buf
  BY <1>1
<1>2. ASSUME NEW g \in Guids, Silent(g)
      PROVE  st' = st /\ LogOf(buf.events)' = LogOf(buf.events)
  <2>1. /\ Status(buf', g) = "active"
        /\ OthersSame(g, g) \/ \E h \in Guids : Forgets(g, h)
    BY <1>2, ActiveIsParticipant, StatusChange DEF Silent
  <2>2. Status(buf, g) = "active"  BY <1>2 DEF Silent, Status
  <2>3. OthersSame(g, g)  BY <2>1, <2>2 DEF Forgets
  <2>4. \A x \in Guids : Status(buf', x) = Status(buf, x)  BY <2>1, <2>2, <2>3 DEF OthersSame
  <2> QED  BY <1>2, <2>4 DEF Silent
<1>3. ASSUME NEW g \in Guids, NEW e \in EventType, NEW val \in Participant, Logs(g, e, val)
      PROVE  Promise!Next
  <2>1. LogOf(buf.events)' = Promise!Logged(g, e.type)
    BY <1>3, LogPush DEF Correct, Promise!Logged
  <2>2. /\ Status(buf', g) = val.status
        /\ OthersSame(g, g) \/ \E h \in Guids : Forgets(g, h)
    BY <1>3, StatusChange DEF Logs
  <2>3. CASE e.type = "discovered"
    <3>1. val.status = "active" /\ st[g] # "active"
      BY <1>3, <2>3 DEF Logs, Status
    <3>2. CASE OthersSame(g, g)
      <4>1. st' = [st EXCEPT ![g] = "active"]  BY <2>2, <3>1, <3>2 DEF OthersSame
      <4>2. Promise!Discover(g)  BY <2>1, <2>3, <3>1, <4>1 DEF Promise!Discover
      <4> QED  BY <4>2 DEF Promise!Next
    <3>3. ASSUME NEW h \in Guids, Forgets(g, h) PROVE Promise!Next
      <4>1. st' = [st EXCEPT ![g] = "active", ![h] = "absent"]
        BY <2>2, <3>1, <3>3 DEF Forgets, OthersSame
      <4>2. Promise!DiscoverForgetting(g, h)
        BY <2>1, <2>3, <3>3, <4>1 DEF Forgets, Promise!DiscoverForgetting
      <4> QED  BY <4>2 DEF Promise!Next
    <3> QED  BY <2>2, <3>2, <3>3
  <2>4. CASE e.type = "lost"
    <3>1. val.status = "left" /\ st[g] = "active"
      <4>1. val.status # "active"  BY <1>3, <2>4 DEF Logs
      <4> QED  BY <1>3, <2>4, <4>1 DEF Logs, Status, Participant
    <3>2. OthersSame(g, g)  BY <2>2, <3>1 DEF Forgets
    <3>3. st' = [st EXCEPT ![g] = "left"]  BY <2>2, <3>1, <3>2 DEF OthersSame
    <3>4. Promise!Lose(g)  BY <2>1, <2>4, <3>1, <3>3 DEF Promise!Lose
    <3> QED  BY <3>4 DEF Promise!Next
  <2> QED  BY <1>3, <2>3, <2>4 DEF EventType
<1> QED  BY <1>1, <1>2, <1>3, EveryStepChanges DEF Change

(* The buffer implements ParticipantLog, whatever its capacities.          *)
THEOREM BufferKeepsPromise == Spec => KeepsPromise
<1>1. Correct /\ [Next]_vars =>
        [Promise!Next]_<<[g \in Guids |-> Status(buf, g)], LogOf(buf.events)>>
  BY PromiseStep
<1> QED
  BY <1>1, PromiseInit, InitCorrect, NextCorrect, PTL DEF Spec, KeepsPromise, Promise!Spec

-----------------------------------------------------------------------------
(* Who is active after a recorded loss was so before, and is not the one   *)
(* that was lost.                                                          *)
LEMMA LostLeaves ==
  ASSUME TypeOK, NEW g \in Guids, NEW t \in Stamps, buf' = RecordLost(buf, g, now, t),
         NEW p \in 1..Len(buf'.participants), buf'.participants[p].val.status = "active"
  PROVE  /\ buf'.participants[p].key # g
         /\ \E q \in 1..Len(buf.participants) : buf.participants[q] = buf'.participants[p]
<1> DEFINE m == buf.participants
<1>1. m \in MapOf(Guids, Participant) /\ IsMap(m)  BY MapTypeIsMapOf DEF TypeOK
<1>2. CASE ~IsKnown(buf, g) \/ StatusOf(buf, g) = "left"
  <2>1. buf' = buf  BY <1>2 DEF RecordLost
  <2>2. m[p].key \in Keys(m) /\ At(m, m[p].key) = m[p].val  BY <1>1, <2>1, AtEntry
  <2>3. m[p].key # g  BY <1>2, <2>1, <2>2 DEF IsKnown, StatusOf
  <2> QED  BY <2>1, <2>3
<1>3. CASE ~(~IsKnown(buf, g) \/ StatusOf(buf, g) = "left")
  <2> DEFINE at == IF t = None THEN now ELSE t
             n == Assign(m, g, Gone(at))
  <2>1. buf'.participants = n  BY <1>3 DEF RecordLost, Gone
  <2>2. at \in {None} \cup Times
    BY TimeAssumption DEF TypeOK, Times, Stamps, None
  <2>3. Gone(at) \in Participant /\ Gone(at).status = "left"  BY <2>2 DEF Gone, Participant
  <2>4. Entry(g, Gone(at)).val = Gone(at)  BY DEF Entry
  <2> HIDE DEF m, at
  <2>5. \A i \in 1..Len(n) : \/ n[i] = Entry(g, Gone(at))
                             \/ n[i].key # g /\ \E q \in 1..Len(m) : n[i] = m[q]
    BY <1>1, <2>3, AssignMap
  <2> HIDE DEF n
  <2>6. n[p] # Entry(g, Gone(at))  BY <2>1, <2>3, <2>4
  <2> QED  BY <2>1, <2>5, <2>6 DEF m
<1> QED  BY <1>2, <1>3

(* While reconcile holds the lock, each participant it will have to mark   *)
(* is still among those it has to visit.                                   *)
Pending ==
  ~LockFree => \A p \in 1..Len(buf.participants) :
    Missing(buf.participants[p]) =>
      \E i \in 1..Len(todo) : /\ todo[i].key = buf.participants[p].key
                              /\ Missing(todo[i])

(* A visit leaves nobody missing that its list does not name any more.     *)
LEMMA VisitLeaves ==
  ASSUME Correct, Pending, ReconcileNext,
         NEW p \in 1..Len(buf'.participants), Missing(buf'.participants[p])
  PROVE  \E i \in 1..Len(todo') : /\ todo'[i].key = buf'.participants[p].key
                                  /\ Missing(todo'[i])
<1> DEFINE n == buf'.participants
<1>1. /\ todo \in MapOf(Guids, Participant) /\ Len(todo) \in Nat \ {0}
      /\ Head(todo) = todo[1] /\ todo' = Tail(todo) /\ Len(todo') = Len(todo) - 1
      /\ \A i \in 1..(Len(todo) - 1) : todo'[i] = todo[i + 1]
  BY MapTypeIsMapOf DEF ReconcileNext, LockFree, Correct, TypeOK, MapOf
<1>2. todo[1].key \in Guids /\ None \in Stamps  BY <1>1, EntryFields DEF Stamps
<1>3. n[p].val.status = "active"  BY DEF Missing
<1>4. /\ \E q \in 1..Len(buf.participants) : buf.participants[q] = n[p]
      /\ Missing(todo[1]) => n[p].key # todo[1].key
  <2>1. CASE Missing(todo[1])
    <3>1. buf' = RecordLost(buf, todo[1].key, now, None)
      BY <1>1, <2>1 DEF ReconcileNext
    <3> QED  BY <1>2, <1>3, <3>1, LostLeaves DEF Correct
  <2>2. CASE ~Missing(todo[1])
    <3>1. buf' = buf  BY <1>1, <2>2 DEF ReconcileNext
    <3> QED  BY <2>2, <3>1
  <2> QED  BY <2>1, <2>2
<1>5. PICK i \in 1..Len(todo) : todo[i].key = n[p].key /\ Missing(todo[i])
  <2>1. ~LockFree  BY DEF ReconcileNext
  <2> QED  BY <1>4, <2>1 DEF Pending
<1>6. i - 1 \in 1..(Len(todo) - 1) /\ (i - 1) + 1 = i
  <2>1. i # 1  BY <1>4, <1>5
  <2> QED  BY <1>1, <2>1
<1>7. todo'[i - 1] = todo[i] /\ i - 1 \in 1..Len(todo')  BY <1>1, <1>6
<1> QED  BY <1>5, <1>7

LEMMA PendingStep == Correct /\ Pending /\ [Next]_vars => Pending'
<1> SUFFICES ASSUME Correct, Pending, [Next]_vars PROVE Pending'  OBVIOUS
<1>1. CASE UNCHANGED <<buf, todo, poll>>
  BY <1>1 DEF Pending, Missing, LockFree
<1>2. CASE LockFree /\ UNCHANGED todo
  BY <1>2 DEF Pending, LockFree
<1>3. ASSUME NEW observed \in SUBSET Guids, NEW d \in Domains, ReconcileStart(observed, d)
      PROVE  Pending'
  BY <1>3 DEF ReconcileStart, Pending, Missing
<1>4. CASE ReconcileNext
  <2>1. CASE Len(todo) = 1
    <3>1. LockFree'
      BY <1>4, <2>1 DEF ReconcileNext, LockFree, Correct, TypeOK, MapType
    <3> QED  BY <3>1 DEF Pending
  <2>2. CASE Len(todo) # 1
    <3>1. UNCHANGED poll  BY <1>4, <2>2 DEF ReconcileNext
    <3>2. \A e : Missing(e)' <=> Missing(e)  BY <3>1 DEF Missing
    <3> QED  BY <1>4, <3>1, VisitLeaves DEF Pending, Missing
  <2> QED  BY <2>1, <2>2
<1> QED  BY <1>1, <1>2, <1>3, <1>4 DEF Next, Tick, Seen, Lost, vars

(* A reconcile that comes to its end leaves no active participant of its   *)
(* domain that the poll did not observe, whatever the order of its visits. *)
THEOREM ReconcilesWhole == Spec => ReconcileComplete
<1> DEFINE Ends == todo # <<>> /\ todo' = <<>>
           Done == \A p \in 1..Len(buf'.participants) :
                     buf'.participants[p].val.status = "active" =>
                       \/ DomainOf[buf'.participants[p].key] # poll.domain
                       \/ buf'.participants[p].key \in poll.observed
<1>1. Correct /\ Pending /\ [Next]_vars => (Ends => Done)
  <2> SUFFICES ASSUME Correct, Pending, [Next]_vars, Ends PROVE Done  OBVIOUS
  <2>1. ReconcileNext
    BY DEF Next, Tick, Seen, Lost, ReconcileStart, LockFree, vars
  <2> SUFFICES ASSUME NEW p \in 1..Len(buf'.participants), Missing(buf'.participants[p])
               PROVE  FALSE
    BY DEF Missing
  <2> QED  BY <2>1, VisitLeaves
<1>2. Init => Pending  BY DEF Init, Pending, LockFree
<1>3. Correct /\ Pending /\ [Next]_vars => [Ends => Done]_vars  BY <1>1
<1> QED  BY <1>2, <1>3, InitCorrect, NextCorrect, PendingStep, PTL DEF Spec, ReconcileComplete

=============================================================================

---------------------------- MODULE LifecycleOps ----------------------------
(***************************************************************************)
(* The operations of LifecycleBuffer (adapters/common/lifecycle.py) as     *)
(* functions of the buffer, a record [participants, events].  Each runs    *)
(* under the buffer's RLock from beginning to end.  They are shared by     *)
(* LifecycleBuffer, where any caller may invoke them, and by               *)
(* DiscoveryTracker, where the tracker thread does.                        *)
(*                                                                         *)
(* Names, vendors and hostnames are left out; a participant keeps what the *)
(* event log is judged by: its status and when and how its loss was dated. *)
(***************************************************************************)
EXTENDS OrderedMap

CONSTANTS MaxEvents,        \* MAX_EVENTS, the event ring
          MaxParticipants   \* MAX_PARTICIPANTS, the participant map

ASSUME BoundsAssumption == /\ MaxEvents \in Nat \ {0}
                           /\ MaxParticipants \in Nat \ {0}

(* Python's None where a timestamp is optional; real ones are positive. *)
None == 0

Local == "observed_local"
Dds   == "dds_source_timestamp"

Active == [status |-> "active", lost |-> None]

EmptyBuffer == [participants |-> <<>>, events |-> <<>>]

IsKnown(buf, g) == g \in Keys(buf.participants)

StatusOf(buf, g) == At(buf.participants, g).status

Event(g, type, at, source, observed) ==
  [guid |-> g, type |-> type, at |-> at, source |-> source, observed |-> observed]

(* A discovered event is dated by the announcement when DDS gave its time. *)
Discovered(g, now, announced) ==
  IF announced = None THEN Event(g, "discovered", now, Local, now)
  ELSE Event(g, "discovered", announced, Dds, now)

(* A left participant is dropped first, the one inserted earliest of them; *)
(* without one, the oldest participant.                                    *)
IsLeft(m, i) == m[i].val.status = "left"
EvictParticipant_oldest(m) == Without(m, 1)
EvictParticipant(m) ==
  IF \E i \in 1..Len(m) : IsLeft(m, i)
  THEN Without(m, CHOOSE i \in 1..Len(m) :
                    IsLeft(m, i) /\ \A j \in 1..(i - 1) : ~IsLeft(m, j))
  ELSE Without(m, 1)

RecordSeen_quietRejoin(buf, g, now, announced) ==
  LET m == buf.participants
      room == IF ~IsKnown(buf, g) /\ Len(m) >= MaxParticipants
              THEN EvictParticipant(m) ELSE m
  IN [participants |-> Assign(room, g, Active),
      events |-> IF IsKnown(buf, g) THEN buf.events
                 ELSE Push(buf.events, Discovered(g, now, announced), MaxEvents)]

RecordSeen(buf, g, now, announced) ==
  LET m == buf.participants
      room == IF ~IsKnown(buf, g) /\ Len(m) >= MaxParticipants
              THEN EvictParticipant(m) ELSE m
  IN [participants |-> Assign(room, g, Active),
      events |-> IF IsKnown(buf, g) /\ StatusOf(buf, g) = "active"
                 THEN buf.events
                 ELSE Push(buf.events, Discovered(g, now, announced), MaxEvents)]

(* lostAt is None when DDS did not date the loss; every caller passes the  *)
(* time source together with it.                                           *)
RecordLost_repeated(buf, g, now, lostAt) ==
  LET at     == IF lostAt = None THEN now ELSE lostAt
      source == IF lostAt = None THEN Local ELSE Dds
  IN IF ~IsKnown(buf, g) THEN buf
     ELSE [participants |-> Assign(buf.participants, g, [status |-> "left", lost |-> at]),
           events |-> Push(buf.events, Event(g, "lost", at, source, now), MaxEvents)]

RecordLost_datedNow(buf, g, now, lostAt) ==
  LET at     == IF lostAt = None THEN now ELSE lostAt
      source == IF lostAt = None THEN Local ELSE Dds
  IN IF ~IsKnown(buf, g) \/ StatusOf(buf, g) = "left" THEN buf
     ELSE [participants |-> Assign(buf.participants, g, [status |-> "left", lost |-> now]),
           events |-> Push(buf.events, Event(g, "lost", at, source, now), MaxEvents)]

RecordLost_localSource(buf, g, now, lostAt) ==
  LET at == IF lostAt = None THEN now ELSE lostAt
  IN IF ~IsKnown(buf, g) \/ StatusOf(buf, g) = "left" THEN buf
     ELSE [participants |-> Assign(buf.participants, g, [status |-> "left", lost |-> at]),
           events |-> Push(buf.events, Event(g, "lost", at, Local, now), MaxEvents)]

RecordLost(buf, g, now, lostAt) ==
  LET at     == IF lostAt = None THEN now ELSE lostAt
      source == IF lostAt = None THEN Local ELSE Dds
  IN IF ~IsKnown(buf, g) \/ StatusOf(buf, g) = "left" THEN buf
     ELSE [participants |-> Assign(buf.participants, g, [status |-> "left", lost |-> at]),
           events |-> Push(buf.events, Event(g, "lost", at, source, now), MaxEvents)]

=============================================================================

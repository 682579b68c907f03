--------------------------- MODULE LifecycleBuffer ---------------------------
(***************************************************************************)
(* The participant lifecycle buffer as a component of its own: whoever     *)
(* holds it may record a sighting or a loss of any participant at any      *)
(* time, or reconcile it with the set of participants a poll observed.     *)
(*                                                                         *)
(* record_seen and record_lost hold the RLock throughout and are one step. *)
(* reconcile re-enters record_lost for one participant after another under *)
(* the same lock: it is one step per participant, and while `todo` is not  *)
(* empty the lock is held and no other caller moves.                       *)
(***************************************************************************)
EXTENDS LifecycleOps

CONSTANTS Guids,      \* participant guids
          Domains,    \* DDS domains
          DomainOf,   \* a participant lives in one domain
          MaxTime     \* bound of the clock, for model checking only

ASSUME DomainAssumption == Domains # {} /\ DomainOf \in [Guids -> Domains]
ASSUME TimeAssumption   == MaxTime \in Nat \ {0}

VARIABLES buf,     \* [participants, events]
          now,     \* time.time_ns()
          todo,    \* list(self._participants.items()) still to visit in reconcile
          poll     \* the arguments of the reconcile that runs

vars == <<buf, now, todo, poll>>

Times == 1..MaxTime

LockFree == todo = <<>>

NoPoll == [observed |-> {}, domain |-> CHOOSE d \in Domains : TRUE]

Init ==
  /\ buf = EmptyBuffer
  /\ now = 1
  /\ todo = <<>>
  /\ poll = NoPoll

Tick ==
  /\ now < MaxTime
  /\ now' = now + 1
  /\ UNCHANGED <<buf, todo, poll>>

(* A DDS timestamp is not in the future of the clock that reads it. *)
Stamps == {None} \cup 1..now

Seen(g, announced) ==
  /\ LockFree
  /\ buf' = RecordSeen(buf, g, now, announced)
  /\ UNCHANGED <<now, todo, poll>>

Lost(g, lostAt) ==
  /\ LockFree
  /\ buf' = RecordLost(buf, g, now, lostAt)
  /\ UNCHANGED <<now, todo, poll>>

ReconcileStart(observed, d) ==
  /\ LockFree
  /\ buf.participants # <<>>
  /\ poll' = [observed |-> observed, domain |-> d]
  /\ todo' = buf.participants
  /\ UNCHANGED <<buf, now>>

Missing_otherDomain(entry) ==
  /\ entry.val.status = "active"
  /\ DomainOf[entry.key] # poll.domain
  /\ entry.key \notin poll.observed

Missing(entry) ==
  /\ entry.val.status = "active"
  /\ DomainOf[entry.key] = poll.domain
  /\ entry.key \notin poll.observed

ReconcileNext ==
  /\ ~LockFree
  /\ buf' = IF Missing(Head(todo)) THEN RecordLost(buf, Head(todo).key, now, None) ELSE buf
  /\ todo' = Tail(todo)
  /\ poll' = IF Len(todo) = 1 THEN NoPoll ELSE poll
  /\ now' = now

Next ==
  \/ Tick
  \/ \E g \in Guids, t \in Stamps : Seen(g, t) \/ Lost(g, t)
  \/ \E observed \in SUBSET Guids, d \in Domains : ReconcileStart(observed, d)
  \/ ReconcileNext

Spec == Init /\ [][Next]_vars

-----------------------------------------------------------------------------
Participant == [status : {"active", "left"}, lost : {None} \cup Times]

EventType == [guid : Guids, type : {"discovered", "lost"}, at : Times,
              source : {Local, Dds}, observed : Times]

MapType == Seq([key : Guids, val : Participant])

(* Types, distinct keys, and the two bounds that keep a churny bus from    *)
(* growing the buffer: the map and the ring never exceed their capacity.   *)
TypeOK ==
  /\ buf \in [participants : MapType, events : Seq(EventType)]
  /\ IsMap(buf.participants)
  /\ Len(buf.participants) <= MaxParticipants
  /\ Len(buf.events) <= MaxEvents
  /\ now \in Times
  /\ todo \in MapType
  /\ poll \in [observed : SUBSET Guids, domain : Domains]

(* Event i is the last the log holds about its participant. *)
LastWord(i) ==
  \A j \in 1..Len(buf.events) : buf.events[j].guid = buf.events[i].guid => j <= i

(* The map and the log tell the same story: the last event logged about a  *)
(* known participant is "discovered" iff the map has it active, through    *)
(* rejoins, evictions from the map and events fallen off the ring.         *)
StatusAgrees ==
  \A p \in 1..Len(buf.participants), i \in 1..Len(buf.events) :
    (/\ buf.events[i].guid = buf.participants[p].key
     /\ LastWord(i))
    => (buf.events[i].type = "discovered" <=> buf.participants[p].val.status = "active")

(* "emitting one event per active -> left": of two events in a row about   *)
(* one participant the second is never a second loss, whatever was evicted *)
(* in between.                                                             *)
LossCountedOnce ==
  \A i, j \in 1..Len(buf.events) :
    (/\ i < j
     /\ buf.events[i].guid = buf.events[j].guid
     /\ \A k \in (i + 1)..(j - 1) : buf.events[k].guid # buf.events[i].guid)
    => ~(buf.events[i].type = "lost" /\ buf.events[j].type = "lost")

(* A participant that left is dated by a loss in the log, unless the ring  *)
(* has begun to drop events.                                               *)
LossOnRecord ==
  \A p \in 1..Len(buf.participants) :
    (buf.participants[p].val.status = "left" /\ Len(buf.events) < MaxEvents)
    => \E i \in 1..Len(buf.events) :
         /\ buf.events[i].guid = buf.participants[p].key
         /\ buf.events[i].type = "lost"
         /\ buf.events[i].at = buf.participants[p].val.lost
         /\ LastWord(i)

(* "Timestamps are never mixed": an event dated by the local clock carries *)
(* the time of the observation, and a DDS date is never later than it.     *)
SourcesNotMixed ==
  \A i \in 1..Len(buf.events) :
    /\ buf.events[i].source = Local => buf.events[i].at = buf.events[i].observed
    /\ buf.events[i].at <= buf.events[i].observed

(* No step forgets an active participant while it could forget one that    *)
(* left: a restart storm does not push live nodes out of the table.        *)
TombstonesFirst ==
  [][\A p \in 1..Len(buf.participants) :
       (/\ buf.participants[p].val.status = "active"
        /\ buf.participants[p].key \notin Keys(buf'.participants))
       => \A q \in 1..Len(buf.participants) : buf.participants[q].val.status = "active"]_vars

(* When reconcile lets go of the lock every active participant of the      *)
(* polled domain is one the poll observed.                                 *)
ReconcileComplete ==
  [][(todo # <<>> /\ todo' = <<>>) =>
       \A p \in 1..Len(buf'.participants) :
         buf'.participants[p].val.status = "active" =>
           \/ DomainOf[buf'.participants[p].key] # poll.domain
           \/ buf'.participants[p].key \in poll.observed]_vars

-----------------------------------------------------------------------------
(* The buffer implements ParticipantLog: a participant the map does not    *)
(* hold is absent, and of an event the log shows whom and what.            *)
Status(b, g) == IF IsKnown(b, g) THEN StatusOf(b, g) ELSE "absent"

LogOf(events) ==
  [i \in 1..Len(events) |-> [guid |-> events[i].guid, type |-> events[i].type]]

Promise == INSTANCE ParticipantLog WITH
  Capacity <- MaxEvents,
  status   <- [g \in Guids |-> Status(buf, g)],
  log      <- LogOf(buf.events)

(* Every operation of the buffer, reconcile's inner losses included, is    *)
(* one change the promise allows, or none.                                 *)
KeepsPromise == Promise!Spec

=============================================================================

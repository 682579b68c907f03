--------------------------- MODULE DiscoveryCaches ---------------------------
(***************************************************************************)
(* The in-memory state of adapters/common/discovery_tracker.py that the    *)
(* tracker thread writes and the tool handlers read, and the operations on *)
(* it that apply one discovery sample.                                     *)
(*                                                                         *)
(* A cache is an OrderedMap from guid to what later decisions read of the  *)
(* cached sample: for an endpoint, its owner.  Names, QoS and types travel *)
(* with the sample and decide nothing here.                                *)
(***************************************************************************)
EXTENDS LifecycleOps, Integers

CONSTANTS Participants, Endpoints,
          OwnerOf,          \* endpoint -> participant (participant_key)
          RoleOf,           \* endpoint -> "writer" or "reader"
          MaxCached,        \* MAX_CACHED_SAMPLES
          MaxGone,          \* MAX_DEPARTED_PARTICIPANTS
          MaxDeparted,      \* MAX_DEPARTED_ENDPOINTS
          MaxRecent,        \* the 400 of recently_removed
          MaxRoles,         \* the 800 of removal_roles
          RemovalWindow     \* REMOVAL_WINDOW_NS

Roles == {"writer", "reader"}

ASSUME EndpointAssumption ==
  /\ OwnerOf \in [Endpoints -> Participants]
  /\ RoleOf \in [Endpoints -> Roles]

ASSUME CapacityAssumption ==
  /\ {MaxCached, MaxGone, MaxDeparted, MaxRecent} \subseteq Nat \ {0}
  /\ MaxRoles \in Nat /\ MaxRecent <= MaxRoles
  /\ RemovalWindow \in Nat

VARIABLES life,      \* the lifecycle buffer
          cached,    \* the participants cache
          live,      \* the publications and subscriptions caches, by role
          departed,  \* DepartedStore
          recent,    \* recently_removed
          roles,     \* removal_roles
          gone       \* departed_participants

caches == <<life, cached, live, departed, recent, roles, gone>>

InitCaches ==
  /\ life = EmptyBuffer
  /\ cached = <<>>
  /\ live = [r \in Roles |-> <<>>]
  /\ departed = <<>>
  /\ recent = <<>>
  /\ roles = <<>>
  /\ gone = <<>>

-----------------------------------------------------------------------------
(* _apply_endpoint: an announcement is cached unless its owner has already *)
(* left, when it goes straight to the departed store; anything else        *)
(* removes the endpoint, remembered a while in case its owner leaves next. *)
ApplyAnnounced_unguarded(e) ==
  /\ live' = [live EXCEPT ![RoleOf[e]] = Put(@, e, OwnerOf[e], MaxCached)]
  /\ UNCHANGED <<life, cached, departed, recent, roles, gone>>

ApplyAnnounced_oneCache(e) ==
  LET owner == OwnerOf[e] IN
  IF owner \in Keys(gone)
  THEN /\ departed' = Put(departed, e, [role |-> RoleOf[e], gone |-> At(gone, owner)], MaxDeparted)
       /\ UNCHANGED <<life, cached, live, recent, roles, gone>>
  ELSE /\ live' = [live EXCEPT !["writer"] = Put(@, e, owner, MaxCached)]
       /\ UNCHANGED <<life, cached, departed, recent, roles, gone>>

ApplyAnnounced(e) ==
  LET owner == OwnerOf[e] IN
  IF owner \in Keys(gone)
  THEN /\ departed' = Put(departed, e, [role |-> RoleOf[e], gone |-> At(gone, owner)], MaxDeparted)
       /\ UNCHANGED <<life, cached, live, recent, roles, gone>>
  ELSE /\ live' = [live EXCEPT ![RoleOf[e]] = Put(@, e, owner, MaxCached)]
       /\ UNCHANGED <<life, cached, departed, recent, roles, gone>>

(* The cleanup of removal_roles, which no eviction from recently_removed   *)
(* reaches by itself.                                                      *)
Pruned_others(rs, kept) ==
  IF Len(rs) > MaxRoles THEN Only(rs, Keys(rs) \ Keys(kept)) ELSE rs

Pruned(rs, kept) == IF Len(rs) > MaxRoles THEN Only(rs, Keys(kept)) ELSE rs

ApplyRemoved_forgets(e, at) ==
  /\ live' = [live EXCEPT ![RoleOf[e]] = Pop(@, e)]
  /\ UNCHANGED <<life, cached, departed, recent, roles, gone>>

ApplyRemoved_asWriter(e, at) ==
  LET r == RoleOf[e] IN
  /\ live' = [live EXCEPT ![r] = Pop(@, e)]
  /\ IF e \in Keys(live[r])
     THEN /\ recent' = Put(recent, e, At(live[r], e), MaxRecent)
          /\ roles' = Pruned(Assign(roles, e, [role |-> "writer", at |-> at]), recent')
     ELSE UNCHANGED <<recent, roles>>
  /\ UNCHANGED <<life, cached, departed, gone>>

ApplyRemoved(e, at) ==
  LET r == RoleOf[e] IN
  /\ live' = [live EXCEPT ![r] = Pop(@, e)]
  /\ IF e \in Keys(live[r])
     THEN /\ recent' = Put(recent, e, At(live[r], e), MaxRecent)
          /\ roles' = Pruned(Assign(roles, e, [role |-> r, at |-> at]), recent')
     ELSE UNCHANGED <<recent, roles>>
  /\ UNCHANGED <<life, cached, departed, gone>>

(* _depart, its first lines: the participant is remembered as gone.        *)
MarkGone(p, at) ==
  /\ gone' = Put(gone, p, at, MaxGone)
  /\ UNCHANGED <<life, cached, live, departed, recent, roles>>

(* _depart, one turn of its first loop, over the two live caches in turn.  *)
DepartLive(p, e, at) ==
  LET r == RoleOf[e] IN
  /\ IF At(live[r], e) = p
     THEN /\ departed' = Put(departed, e, [role |-> r, gone |-> at], MaxDeparted)
          /\ live' = [live EXCEPT ![r] = Pop(@, e)]
     ELSE UNCHANGED <<departed, live>>
  /\ UNCHANGED <<life, cached, recent, roles, gone>>

(* _depart, one turn of its second loop, over the recently removed: one    *)
(* too old is dropped, one of p's departed with it.                        *)
DepartRecent(p, e, at, now) ==
  LET known  == e \in Keys(roles)
      role   == IF known THEN At(roles, e).role ELSE "writer"
      tooOld == ~known \/ now - At(roles, e).at > RemovalWindow
      mine   == At(recent, e) = p
  IN /\ IF tooOld \/ mine
        THEN /\ recent' = Pop(recent, e)
             /\ roles' = Pop(roles, e)
        ELSE UNCHANGED <<recent, roles>>
     /\ departed' = IF ~tooOld /\ mine
                    THEN Put(departed, e, [role |-> role, gone |-> at], MaxDeparted)
                    ELSE departed
     /\ UNCHANGED <<life, cached, live, gone>>

(* _apply_participant, its four effects: a valid sample is a sighting...   *)
ApplySeen(p, at, now) ==
  /\ life' = RecordSeen(life, p, now, at)
  /\ UNCHANGED <<cached, live, departed, recent, roles, gone>>

(* ... and, when the instance is alive, the participant is back.           *)
ApplyAlive_stillGone(p) ==
  /\ cached' = Put(cached, p, p, MaxCached)
  /\ UNCHANGED <<life, live, departed, recent, roles, gone>>

ApplyAlive(p) ==
  /\ gone' = Pop(gone, p)
  /\ cached' = Put(cached, p, p, MaxCached)
  /\ UNCHANGED <<life, live, departed, recent, roles>>

(* After _depart, for a participant born and gone between two passes: its  *)
(* dispose time is unknown, the loss is dated by the local clock.          *)
ApplyBornGone(p, now) ==
  /\ cached' = Pop(cached, p)
  /\ life' = RecordLost(life, p, now, None)
  /\ UNCHANGED <<live, departed, recent, roles, gone>>

(* After _depart, for a dispose or an expired lease: a participant never   *)
(* seen to announce itself is still reported, as a pair.                   *)
ApplyGone(p, at, now) ==
  LET known == IF IsKnown(life, p) THEN life ELSE RecordSeen(life, p, now, None) IN
  /\ cached' = Pop(cached, p)
  /\ life' = RecordLost(known, p, now, at)
  /\ UNCHANGED <<live, departed, recent, roles, gone>>

=============================================================================

--------------------------- MODULE ParticipantLog ---------------------------
(***************************************************************************)
(* What the lifecycle buffer promises to participant_events: a status per  *)
(* participant and a log of the changes, nothing about maps or insertion   *)
(* order.  A change of status is logged when it happens, once; the log     *)
(* keeps its newest Capacity entries; a participant may be forgotten to    *)
(* make room for another, and an active one only when no participant that  *)
(* left could be forgotten in its place.                                   *)
(***************************************************************************)
EXTENDS Naturals, Sequences

CONSTANTS Guids, Capacity

VARIABLES status, log

Init ==
  /\ status = [g \in Guids |-> "absent"]
  /\ log = <<>>

Logged(g, type) ==
  LET longer == Append(log, [guid |-> g, type |-> type])
  IN IF Len(longer) <= Capacity THEN longer ELSE Tail(longer)

Discover(g) ==
  /\ status[g] # "active"
  /\ status' = [status EXCEPT ![g] = "active"]
  /\ log' = Logged(g, "discovered")

DiscoverForgetting(g, h) ==
  /\ status[g] = "absent"
  /\ h # g
  /\ \/ status[h] = "left"
     \/ status[h] = "active" /\ \A x \in Guids : status[x] # "left"
  /\ status' = [status EXCEPT ![g] = "active", ![h] = "absent"]
  /\ log' = Logged(g, "discovered")

Lose(g) ==
  /\ status[g] = "active"
  /\ status' = [status EXCEPT ![g] = "left"]
  /\ log' = Logged(g, "lost")

Next ==
  \E g \in Guids :
    \/ Discover(g)
    \/ \E h \in Guids : DiscoverForgetting(g, h)
    \/ Lose(g)

Spec == Init /\ [][Next]_<<status, log>>

=============================================================================

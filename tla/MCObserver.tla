----------------------------- MODULE MCObserver -----------------------------
(* Two ros2 commands of TopicForge, a user's own on another machine that   *)
(* has the same pid.                                                       *)
EXTENDS Observer

Node(cli, pid) == {[cli |-> cli, pid |-> pid]}
MCProcs ==
  [c1 |-> [pid |-> 5, host |-> "desk", vendor |-> "fast", tells |-> TRUE, own |-> TRUE,
           names |-> Node(TRUE, 5)],
   c2 |-> [pid |-> 6, host |-> "desk", vendor |-> "cyclone", tells |-> FALSE, own |-> TRUE,
           names |-> Node(TRUE, 6)],
   r1 |-> [pid |-> 5, host |-> "robot", vendor |-> "fast", tells |-> TRUE, own |-> FALSE,
           names |-> Node(TRUE, 5)]]
=============================================================================

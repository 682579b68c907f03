--------------------------- MODULE MCGraphHistory ---------------------------
(* A robot of two nodes and two topics, one of them builtin, that changes  *)
(* while it is read; two readable bags of three paths.                     *)
EXTENDS GraphHistory, TLC

CONSTANTS n1, n2, scan, rosout, A, B, best, rel, b1, b2, b3, vol, tl

Topic(type, pubs, subs) == [type |-> type, publishers |-> pubs, subscribers |-> subs]
Writer(t, q) == [topic |-> t, qos |-> q]

MCFixture ==
  [nodes |-> {n1, n2},
   topics |-> (scan :> Topic(A, 1, 1)) @@ (rosout :> Topic(B, 2, 0)),
   writers |-> {Writer(scan, best)}, listed |-> {Writer(scan, best)}]
(* Two writers of scan, of two profiles, of which a listing shows some. *)
Doubled(listed) ==
  [nodes |-> {n1, n2},
   topics |-> (scan :> Topic(A, 2, 1)) @@ (rosout :> Topic(B, 3, 0)),
   writers |-> {Writer(scan, best), Writer(scan, rel)}, listed |-> listed]
(* A node died with its topic. *)
Halved ==
  [nodes |-> {n1}, topics |-> rosout :> Topic(B, 1, 0), writers |-> {}, listed |-> {}]
(* Restarted with another type and a profile changed. *)
Retyped ==
  [nodes |-> {n2}, topics |-> scan :> Topic(B, 1, 2),
   writers |-> {Writer(scan, rel)}, listed |-> {Writer(scan, rel)}]
MCGraphs ==
  {MCFixture, Doubled({Writer(scan, best)}), Doubled({Writer(scan, rel)}),
   Halved, Retyped}

MCSeed == [missingNode |-> n2, missingTopic |-> rosout, qosTopic |-> scan, qos |-> rel]

Recorded(type, rate, latched, internal) ==
  [type |-> type, rate |-> rate, latched |-> latched, internal |-> internal]
MCBags ==
  (b1 :> (scan :> Recorded(A, 10, vol, FALSE))) @@
  (b2 :> ((scan :> Recorded(A, 13, tl, FALSE))
          @@ (rosout :> Recorded(B, NoRate, "unknown", TRUE))))
MCMockBag == scan :> Recorded(A, 10, "unknown", FALSE)
=============================================================================

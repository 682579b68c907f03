------------------------- MODULE MCLifecycleBuffer -------------------------
(* LifecycleBuffer over three participants of two domains, a map that      *)
(* holds two of them and a ring of three events.                           *)
EXTENDS LifecycleBuffer, TLC

CONSTANTS g1, g2, g3, d1, d2

MCGuids == {g1, g2, g3}
MCDomains == {d1, d2}
MCDomainOf == g1 :> d1 @@ g2 :> d1 @@ g3 :> d2
=============================================================================

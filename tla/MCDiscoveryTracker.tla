------------------------- MODULE MCDiscoveryTracker -------------------------
(* DiscoveryTracker over one or two participants and their endpoints.      *)
EXTENDS DiscoveryTracker, TLC

CONSTANTS p1, p2, w1, r1

OnePart   == {p1}
TwoParts  == {p1, p2}
OneEnd    == {w1}
TwoEnds   == {w1, r1}
OwnerOne  == w1 :> p1
OwnerBoth == w1 :> p1 @@ r1 :> p1
OwnerTwo  == w1 :> p1 @@ r1 :> p2
RoleOne   == w1 :> "writer"
RoleBoth  == w1 :> "writer" @@ r1 :> "reader"
=============================================================================

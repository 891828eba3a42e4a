---------------------------- MODULE MCSessionHub ----------------------------
(* Instances of SessionHub for TLC: two tabs of one user.                  *)
EXTENDS SessionHub, TLC

CONSTANTS u1, u2, c1, c2, p1, p2

TwoTabs == c1 :> u1 @@ c2 :> u1

TabSymmetry == Permutations({c1, c2}) \cup Permutations(Ptys)
=============================================================================

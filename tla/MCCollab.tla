------------------------------ MODULE MCCollab ------------------------------
(* Instances of Collab for TLC. *)
EXTENDS Collab, TLC

CONSTANTS u1, u2, c1, c2, r1, r2

\* Two participants with one connection each, as alike as the owner's requests.
OneEach == c1 :> u1 @@ c2 :> u2
Requesters == Permutations({r1, r2})
Swap == u1 :> u2 @@ u2 :> u1 @@ c1 :> c2 @@ c2 :> c1
EachSymmetry == Requesters \cup {Swap @@ f : f \in Requesters}
=============================================================================

----------------------------- MODULE MCTargets -----------------------------
(* Instances of Targets for TLC: one user-owned target, which either has the *)
(* name of a global one or a name of its own.  Sessions, handshakes and      *)
(* reloads are interchangeable.                                              *)
EXTENDS Targets, TLC

SharedName == [u \in UserTargets |-> CHOOSE g \in Globals : TRUE]
OwnName    == [u \in UserTargets |-> "mine"]

Interchangeable ==
  Permutations(Sessions) \cup Permutations(Conns) \cup Permutations(Reloads)
=============================================================================

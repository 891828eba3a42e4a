---------------------------- MODULE MCMembership ----------------------------
(* Instances of Membership for TLC. *)
EXTENDS Membership, TLC

CONSTANTS s1, s2, i1, i2, h1, h2

\* Sessions, invites and handlers are as alike as their kind.
Alike == {f @@ g @@ h : f \in Permutations({s1, s2}),
                        g \in Permutations({i1, i2}),
                        h \in Permutations({h1, h2})}
=============================================================================

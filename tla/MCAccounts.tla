----------------------------- MODULE MCAccounts -----------------------------
(* Instances of Accounts for TLC. *)
EXTENDS Accounts, TLC

CONSTANTS c1, c2, l1, l2

\* Registrations and logins are as alike as their kind.
Alike == {f @@ g : f \in Permutations({c1, c2}), g \in Permutations({l1, l2})}
=============================================================================

----------------------------- MODULE MCUpgrade -----------------------------
(* Instances of Upgrade for TLC.                                            *)
EXTENDS Upgrade

CONSTANTS u1, u2, gateway, command

=============================================================================

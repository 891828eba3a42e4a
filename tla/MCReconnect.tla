---------------------------- MODULE MCReconnect ----------------------------
(* Instances of Reconnect for TLC.                                          *)
EXTENDS Reconnect

CONSTANTS w1, w2
=============================================================================
